---------------------------- MODULE Spec2Model ----------------------------
(***************************************************************************)
(* A model of the multiplexed reverse proxy: the load balancer             *)
(* (load_balancer.py), the response cache (cache.py), the backend          *)
(* connection pool (connection_pool.py) and the per-client connection      *)
(* context state machine (connection_context.py) driven by the event loop  *)
(* of main.py.                                                             *)
(***************************************************************************)
EXTENDS Integers, Sequences, FiniteSets, TLC

(***************************************************************************)
(* Program constants (command-line settings) and bounds of the model.      *)
(***************************************************************************)
MAX_RETRIES == 2
FAILURE_THRESHOLD == 1
POOL_MAXSIZE == 2
MAX_LIFETIME == 2

\* the clock stops ticking at MaxTime
MaxTime == 1
\* an active-connection count is not incremented past MaxCount by the
\* stand-alone load balancer operations
MaxCount == 2
\* number of get_server calls of the stand-alone load balancer
MaxCounter == 3
\* number of rounds over the registry a run of get_server calls makes
MaxRounds == 2
\* number of backend sockets the pool's callers ever create
MaxSocks == 3
\* a context buffers at most MaxBuf tokens of a message it reads
MaxBuf == 2
\* a client sends at most MaxReq request heads on one connection
MaxReq == 2
\* a client that never ends its head sends at most MaxJunk chunks of it
MaxJunk == 5
\* the size of a full recv: client_sock.recv(4096)
RecvSize == 4096
\* the maximum head size of the specification (8 KiB); the code has none
MAX_HEAD_SIZE == 8192
\* ConnectionContext.TIMEOUT, the keep-alive timeout
TIMEOUT == 0

\* backend addresses: ServersJson is the content of servers.json, Discovered
\* an address only the discovery channel can add
ServersJson == <<"A", "B">>
Discovered == "C"
AllAddrs == {"A", "B", "C"}

Methods == {"GET", "POST", "post"}
Paths == {"/x"}
\* cached response bytes (opaque to the cache): byte strings are sequences
Messages == {<<"m1">>, <<"m2">>}
\* max-age values handed to add_message
MaxAges == {1, 2}

None == "None"

---------------------------------------------------------------------------
(***************************************************************************)
(* Python dict: an insertion-ordered sequence of <<key, value>> pairs.     *)
(***************************************************************************)
DictKeys(d) == [i \in 1..Len(d) |-> d[i][1]]

DictHas(d, k) == \E i \in 1..Len(d) : d[i][1] = k

DictGet(d, k) == d[CHOOSE i \in 1..Len(d) : d[i][1] = k][2]

DictSet(d, k, v) ==
    IF DictHas(d, k)
    THEN [i \in 1..Len(d) |-> IF d[i][1] = k THEN <<k, v>> ELSE d[i]]
    ELSE Append(d, <<k, v>>)

DictDel(d, k) == SelectSeq(d, LAMBDA e : e[1] # k)

---------------------------------------------------------------------------
(***************************************************************************)
(* load_balancer.py                                                        *)
(***************************************************************************)
Algorithms == {"LEAST_CONNECTIONS", "RANDOM", "IP_HASH", "ROUND_ROBIN"}

\* client addresses, and int(md5(ip).hexdigest(), 16) % 6 of each: the
\* residue modulo 6 gives the residue modulo every registry size up to 3
ClientIps == {"10.0.0.2", "::1"}
Md5Mod6(ip) == IF ip = "10.0.0.2" THEN 2 ELSE 3

\* LoadBalancer.__init__
LoadBalancerInit(alg) ==
    [algorithm |-> alg,
     servers_list |-> ServersJson,
     servers_dict |-> [i \in 1..Len(ServersJson) |-> <<ServersJson[i], 0>>],
     ROUND_ROBIN_COUNTER |-> 0]

\* min(self.servers_dict, key=self.servers_dict.get): the first key, in
\* dict order, whose value is minimal
MinKey(d) ==
    d[CHOOSE i \in 1..Len(d) :
        /\ \A j \in 1..Len(d) : d[i][2] <= d[j][2]
        /\ \A j \in 1..(i - 1) : d[j][2] > d[i][2]][1]

get_server_stuck(lb, ip, pick) ==
    LET n == Len(lb.servers_list)
        ok(s, l) == [exc |-> "", server |-> s, lb |-> l]
        raise(e) == [exc |-> e, server |-> None, lb |-> lb]
    IN  CASE lb.algorithm = "LEAST_CONNECTIONS" ->
               IF Len(lb.servers_dict) = 0 THEN raise("ValueError")
               ELSE ok(MinKey(lb.servers_dict), lb)
          [] lb.algorithm = "RANDOM" ->
               IF n = 0 THEN raise("IndexError")
               ELSE ok(lb.servers_list[((pick - 1) % n) + 1], lb)
          [] lb.algorithm = "IP_HASH" ->
               IF n = 0 THEN raise("ZeroDivisionError")
               ELSE ok(lb.servers_list[(Md5Mod6(ip) % n) + 1], lb)
          [] lb.algorithm = "ROUND_ROBIN" ->
               IF n = 0 THEN raise("ZeroDivisionError")
               ELSE ok(lb.servers_list[(lb.ROUND_ROBIN_COUNTER % n) + 1],
                       lb)
          [] OTHER -> raise("ValueError")

\* get_server: the result is [exc, server, lb]; exc names the exception the
\* call raises ("" when it returns); pick is random.choice's draw
get_server(lb, ip, pick) ==
    LET n == Len(lb.servers_list)
        ok(s, l) == [exc |-> "", server |-> s, lb |-> l]
        raise(e) == [exc |-> e, server |-> None, lb |-> lb]
    IN  CASE lb.algorithm = "LEAST_CONNECTIONS" ->
               IF Len(lb.servers_dict) = 0 THEN raise("ValueError")
               ELSE ok(MinKey(lb.servers_dict), lb)
          [] lb.algorithm = "RANDOM" ->
               IF n = 0 THEN raise("IndexError")
               ELSE ok(lb.servers_list[((pick - 1) % n) + 1], lb)
          [] lb.algorithm = "IP_HASH" ->
               IF n = 0 THEN raise("ZeroDivisionError")
               ELSE ok(lb.servers_list[(Md5Mod6(ip) % n) + 1], lb)
          [] lb.algorithm = "ROUND_ROBIN" ->
               IF n = 0 THEN raise("ZeroDivisionError")
               ELSE ok(lb.servers_list[(lb.ROUND_ROBIN_COUNTER % n) + 1],
                       [lb EXCEPT !.ROUND_ROBIN_COUNTER = @ + 1])
          [] OTHER -> raise("ValueError")

add_server(lb, server) ==
    IF DictHas(lb.servers_dict, server) THEN lb
    ELSE LET d == DictSet(lb.servers_dict, server, 0)
         IN  [lb EXCEPT !.servers_dict = d, !.servers_list = DictKeys(d)]

remove_server(lb, server) ==
    IF ~DictHas(lb.servers_dict, server) THEN lb
    ELSE LET d == DictDel(lb.servers_dict, server)
         IN  [lb EXCEPT !.servers_dict = d, !.servers_list = DictKeys(d)]

increment_connection(lb, server) ==
    IF ~DictHas(lb.servers_dict, server) THEN lb
    ELSE [lb EXCEPT !.servers_dict =
              DictSet(@, server, DictGet(@, server) + 1)]

decrement_connection_unclamped(lb, server) ==
    IF ~DictHas(lb.servers_dict, server) THEN lb
    ELSE [lb EXCEPT !.servers_dict =
              DictSet(@, server, DictGet(@, server) - 1)]

decrement_connection(lb, server) ==
    IF ~DictHas(lb.servers_dict, server) THEN lb
    ELSE LET n == DictGet(lb.servers_dict, server) - 1
         IN  [lb EXCEPT !.servers_dict =
                  DictSet(@, server, IF n < 0 THEN 0 ELSE n)]

\* n successive get_server calls for a client ip: [servers, lb], the
\* servers returned, in order, and the load balancer as the calls leave it
RECURSIVE Serve(_, _, _)
Serve(lb, ip, n) ==
    IF n = 0 THEN [servers |-> <<>>, lb |-> lb]
    ELSE LET r == get_server(lb, ip, 1)
             rest == Serve(r.lb, ip, n - 1)
         IN  [servers |-> <<r.server>> \o rest.servers, lb |-> rest.lb]

\* the active-connection count of an address (0 when not registered)
ActiveCount(lb, server) ==
    IF DictHas(lb.servers_dict, server) THEN DictGet(lb.servers_dict, server)
    ELSE 0

---------------------------------------------------------------------------
(***************************************************************************)
(* cache.py                                                                *)
(***************************************************************************)
CacheKeys == Methods \X Paths

\* str.lower() on the method names of the model
Lower(m) == IF m \in {"POST", "post"} THEN "post" ELSE "get"

\* Cache.__init__: the empty dict; a key maps to <<>> when absent and to
\* the tuple <<message, expiry>> when present
CacheInit == [k \in CacheKeys |-> <<>>]

get_message_stale(cache, t, method, path) ==
    LET k == <<method, path>>
    IN  IF Lower(method) # "post" /\ cache[k] # <<>>
        THEN IF t <= cache[k][2]
             THEN [message |-> cache[k][1], cache |-> cache]
             ELSE [message |-> <<>>, cache |-> [cache EXCEPT ![k] = <<>>]]
        ELSE [message |-> <<>>, cache |-> cache]

get_message_post(cache, t, method, path) ==
    LET k == <<method, path>>
    IN  IF cache[k] # <<>>
        THEN IF t < cache[k][2]
             THEN [message |-> cache[k][1], cache |-> cache]
             ELSE [message |-> <<>>, cache |-> [cache EXCEPT ![k] = <<>>]]
        ELSE [message |-> <<>>, cache |-> cache]

get_message_miss(cache, t, method, path) ==
    [message |-> <<>>, cache |-> cache]

\* get_message: [message, cache]: the bytes returned (<<>> is b'') and the
\* cache as the call leaves it
get_message(cache, t, method, path) ==
    LET k == <<method, path>>
    IN  IF Lower(method) # "post" /\ cache[k] # <<>>
        THEN IF t < cache[k][2]
             THEN [message |-> cache[k][1], cache |-> cache]
             ELSE [message |-> <<>>, cache |-> [cache EXCEPT ![k] = <<>>]]
        ELSE [message |-> <<>>, cache |-> cache]

add_message(cache, t, method, path, message, max_age) ==
    [cache EXCEPT ![<<method, path>>] = <<message, t + max_age>>]

---------------------------------------------------------------------------
(***************************************************************************)
(* connection_pool.py                                                      *)
(***************************************************************************)
Socks == 1..MaxSocks

\* what recv(1, MSG_PEEK) does on a pooled socket
Probes == {"BlockingIOError", "eof", "OSError", "data"}

\* _is_socket_alive
is_socket_alive(probe) == probe = "BlockingIOError"

\* ConnectionPool.__init__: defaultdict(deque) with no key
PoolInit == [a \in {} |-> <<>>]

\* the while loop of get_connection over addr's deque: [sock, queue, closed]
RECURSIVE PopLoop(_, _, _, _)
PopLoop(queue, t, probe, closed) ==
    IF queue = <<>> THEN [sock |-> 0, queue |-> queue, closed |-> closed]
    ELSE LET sock == Head(queue)[1]
             expiration == Head(queue)[2]
         IN  IF (t - expiration < MAX_LIFETIME) /\ is_socket_alive(probe[sock])
             THEN [sock |-> sock, queue |-> Tail(queue), closed |-> closed]
             ELSE PopLoop(Tail(queue), t, probe, closed \cup {sock})

\* get_connection: [sock, pool, closed, created]; sock 0 when
\* _create_connection raises; fresh is the socket _create_connection makes,
\* err whether its connect_ex fails outright
get_connection(pool, t, addr, probe, fresh, err) ==
    LET r == IF addr \in DOMAIN pool THEN PopLoop(pool[addr], t, probe, {})
             ELSE [sock |-> 0, queue |-> <<>>, closed |-> {}]
        p == IF addr \in DOMAIN pool THEN [pool EXCEPT ![addr] = r.queue]
             ELSE pool
    IN  IF r.sock # 0
        THEN [sock |-> r.sock, pool |-> p, closed |-> r.closed,
              created |-> FALSE]
        ELSE [sock |-> IF err THEN 0 ELSE fresh, pool |-> p,
              closed |-> r.closed \cup (IF err THEN {fresh} ELSE {}),
              created |-> TRUE]

release_connection_unbounded(pool, t, addr, sock) ==
    [pool |-> IF addr \in DOMAIN pool
              THEN [pool EXCEPT ![addr] = Append(@, <<sock, t>>)]
              ELSE pool @@ (addr :> <<(<<sock, t>>)>>),
     closed |-> {}]

\* release_connection: [pool, closed]
release_connection(pool, t, addr, sock) ==
    IF addr \in DOMAIN pool /\ Len(pool[addr]) < POOL_MAXSIZE
    THEN [pool |-> [pool EXCEPT ![addr] = Append(@, <<sock, t>>)],
          closed |-> {}]
    ELSE [pool |-> pool, closed |-> {sock}]

\* cleanup: [pool, closed]
cleanup(pool, t) ==
    [pool |-> [a \in DOMAIN pool |->
                  SelectSeq(pool[a], LAMBDA e : (t - e[2]) < MAX_LIFETIME)],
     closed |-> {pool[a][i][1] : <<a, i>> \in
                  {x \in (DOMAIN pool) \X (1..POOL_MAXSIZE) :
                      /\ x[2] <= Len(pool[x[1]])
                      /\ ~((t - pool[x[1]][x[2]][2]) < MAX_LIFETIME)}}]

---------------------------------------------------------------------------
(***************************************************************************)
(* connection_context.py                                                   *)
(*                                                                         *)
(* Bytes on the wire are sequences of tokens.  A "head" token stands for a *)
(* message head with its terminating \r\n\r\n and carries what the head    *)
(* says; a "junk" token for bytes that hold no \r\n\r\n; a "body" token    *)
(* for one body byte; a "gzip" token for the header of a gzip stream; an   *)
(* "error" token for one of the fixed error replies.                       *)
(***************************************************************************)
Tok(kind) ==
    [kind |-> kind,
     ok |-> TRUE,        \* the head parses (parse_request / parse_response)
     method |-> "", path |-> "",
     cl |-> 0,           \* Content-Length; -1: a value int() rejects
     conn |-> "",        \* the Connection header ("" when absent)
     gzip |-> FALSE,     \* request: Accept-Encoding holds gzip;
                         \* response: Content-Encoding: gzip set by the proxy;
                         \* body byte: gzip-compressed
     ce |-> FALSE,       \* response: the backend sent a Content-Encoding
     max_age |-> 0,      \* response: max-age of Cache-Control (0: none)
     code |-> 0,         \* status of a response
     fwd |-> FALSE]      \* request: rewritten for the backend

Junk == Tok("junk")
Body == Tok("body")

RequestHead(m, n, k, g) ==
    [Tok("head") EXCEPT !.method = m, !.path = "/x", !.cl = n, !.conn = k,
                        !.gzip = g]

\* the request heads a client sends: one that does not parse, one whose
\* Content-Length is no number, and well-formed ones
RequestHeads ==
    {[Tok("head") EXCEPT !.ok = FALSE],
     RequestHead("GET", -1, "", FALSE),
     RequestHead("GET", 0, "", FALSE),
     RequestHead("GET", 0, "close", FALSE),
     RequestHead("GET", 0, "keep-alive", FALSE),
     RequestHead("GET", 0, "keep-alive", TRUE),
     RequestHead("GET", 1, "keep-alive", FALSE),
     RequestHead("POST", 0, "close", FALSE),
     RequestHead("POST", 1, "keep-alive", FALSE)}

ResponseHead(n, e, a) ==
    [Tok("head") EXCEPT !.code = 200, !.cl = n, !.ce = e, !.max_age = a]

\* the response heads a backend sends
ResponseHeads ==
    {[Tok("head") EXCEPT !.ok = FALSE, !.code = 200],
     ResponseHead(-1, FALSE, 0),
     ResponseHead(0, FALSE, 0),
     ResponseHead(0, FALSE, 1),
     ResponseHead(0, TRUE, 1),
     ResponseHead(1, FALSE, 0),
     ResponseHead(1, FALSE, 1)}

\* b'400 bad request', b'502 bad gateway', b'503 service unavailable'
ErrorResponse(code) == <<[Tok("error") EXCEPT !.code = code]>>

\* HEADER_DELIMITER in buffer
HasDelimiter(buf) == \E i \in 1..Len(buf) : buf[i].kind = "head"

\* buffer.partition(HEADER_DELIMITER): the place of the first head token
HeadIndex(buf) ==
    CHOOSE i \in 1..Len(buf) :
        /\ buf[i].kind = "head"
        /\ \A j \in 1..(i - 1) : buf[j].kind # "head"

\* compress_response: the gzip stream of a body
compress_response(body) ==
    <<Tok("gzip")>> \o [i \in 1..Len(body) |-> [body[i] EXCEPT !.gzip = TRUE]]

\* r with the fields of u replaced
Upd(r, u) == [k \in DOMAIN r |-> IF k \in DOMAIN u THEN u[k] ELSE r[k]]

States == {"TLS_HANDSHAKE", "READ_REQUEST", "CONNECT_BACKEND", "WRITE_BACKEND",
           "READ_BACKEND", "WRITE_CLIENT", "CLEANUP"}

\* ConnectionContext.__init__ and the registration of accept_connection;
\* the attributes a handler sets later hold their "unset" value
\* the address of the client of each context
ClientAddr(c) == IF c = 1 THEN "::1" ELSE "10.0.0.2"

NewContext(ip, t) ==
    [state |-> "TLS_HANDSHAKE",
     client_sock |-> "open", client_reg |-> "R", client_addr |-> ip,
     backend_sock |-> None, backend_reg |-> "", backend_addr |-> None,
     request_buffer |-> <<>>, response_buffer |-> <<>>,
     request_content_length |-> 0, response_content_length |-> 0,
     request_header_parsed |-> FALSE, response_header_parsed |-> FALSE,
     retries |-> 0, last_active |-> t,
     request_head_raw_length |-> 0, response_head_raw_length |-> 0,
     method |-> "", path |-> "", accept_gzip |-> FALSE,
     keepalive |-> "unset", response_head |-> Tok("head"),
     \* what the sockets accepted, and counts of what happened
     to_client |-> <<>>, to_backend |-> <<>>,
     attempts |-> 0, requests |-> 0, responses |-> 0, hit |-> FALSE,
     \* the Connection header of the head parsed for the request at hand
     connection |-> "unparsed"]

\* a context slot no connection has been accepted into
NoContext == [NewContext("", 0) EXCEPT !.state = "NONE", !.client_sock = None,
                                        !.client_reg = ""]

\* _init_connection_info.  The attributes of the request just served that
\* Python leaves in place, and that the next request assigns before it reads
\* them, are returned to their unset value; keepalive is read before it is
\* assigned and stays.
init_connection_info(self) ==
    Upd(self, [request_buffer |-> <<>>, response_buffer |-> <<>>,
               request_content_length |-> 0, response_content_length |-> 0,
               request_header_parsed |-> FALSE,
               response_header_parsed |-> FALSE,
               retries |-> 0,
               request_head_raw_length |-> 0, response_head_raw_length |-> 0,
               method |-> "", path |-> "", accept_gzip |-> FALSE,
               response_head |-> Tok("head"),
               to_client |-> <<>>, to_backend |-> <<>>,
               attempts |-> 0, hit |-> FALSE, connection |-> "unparsed"])

(***************************************************************************)
(* A handler maps a world w = [self, lb, cache, failed, exc] to the world  *)
(* it leaves: self is the context, lb, cache and failed the class          *)
(* attributes LOAD_BALANCER, CACHE and FAILED_SERVERS, exc the exception   *)
(* that leaves process_events ("" when it returns).                        *)
(***************************************************************************)
\* _set_write_client_state
set_write_client_state(w) ==
    [w EXCEPT !.self = Upd(@, [client_reg |-> "W", state |-> "WRITE_CLIENT"])]

\* _close
close(w) ==
    [w EXCEPT
       !.lb = IF w.self.backend_addr # None
              THEN decrement_connection(@, w.self.backend_addr) ELSE @,
       !.self = Upd(@, [client_sock |-> "closed", client_reg |-> "",
                        backend_sock |-> IF w.self.backend_sock = None
                                         THEN None ELSE "closed",
                        backend_reg |-> "",
                        backend_addr |-> None])]

\* _init_backend_conn that leaves the client socket registered
init_backend_conn_listening(w, pick) ==
    LET r == get_server(w.lb, w.self.client_addr, pick)
    IN  IF r.exc \in {"ValueError", "ZeroDivisionError"}
        THEN set_write_client_state(
                 [w EXCEPT !.self.response_buffer = ErrorResponse(503)])
        ELSE IF r.exc # ""
        THEN [w EXCEPT !.exc = r.exc]
        ELSE [w EXCEPT
                !.lb = increment_connection(r.lb, r.server),
                !.self = Upd(@, [backend_addr |-> r.server,
                                 state |-> "CONNECT_BACKEND",
                                 backend_sock |-> "pending",
                                 backend_reg |-> "W",
                                 to_backend |-> <<>>,
                                 attempts |-> w.self.attempts + 1])]

\* _init_backend_conn
init_backend_conn(w, pick) ==
    LET r == get_server(w.lb, w.self.client_addr, pick)
    IN  IF r.exc \in {"ValueError", "ZeroDivisionError"}
        THEN set_write_client_state(
                 [w EXCEPT !.self.response_buffer = ErrorResponse(503)])
        ELSE IF r.exc # ""
        THEN [w EXCEPT !.exc = r.exc]
        ELSE [w EXCEPT
                !.lb = increment_connection(r.lb, r.server),
                !.self = Upd(@, [backend_addr |-> r.server,
                                 state |-> "CONNECT_BACKEND",
                                 backend_sock |-> "pending",
                                 backend_reg |-> "W",
                                 client_reg |-> "",
                                 to_backend |-> <<>>,
                                 attempts |-> w.self.attempts + 1])]

handshake_cleanup(w, outcome) ==
    CASE outcome = "SSLWantReadError" -> [w EXCEPT !.self.client_reg = "R"]
      [] outcome = "SSLWantWriteError" -> [w EXCEPT !.self.client_reg = "W"]
      [] outcome = "Exception" -> [w EXCEPT !.self.state = "CLEANUP"]
      [] OTHER -> [w EXCEPT !.self = Upd(@, [state |-> "READ_REQUEST",
                                             client_reg |-> "R"])]

\* _handshake; outcome is what do_handshake does
handshake(w, outcome) ==
    CASE outcome = "SSLWantReadError" -> [w EXCEPT !.self.client_reg = "R"]
      [] outcome = "SSLWantWriteError" -> [w EXCEPT !.self.client_reg = "W"]
      [] outcome = "Exception" -> close(w)
      [] OTHER -> [w EXCEPT !.self = Upd(@, [state |-> "READ_REQUEST",
                                             client_reg |-> "R"])]

\* the part of _read_request that follows a successful recv of data
read_request_data(w, t, data, pick) ==
    LET buf == w.self.request_buffer \o data
        w1 == [w EXCEPT !.self.request_buffer = buf,
                        !.self.requests =
                            @ + Cardinality({i \in 1..Len(data) :
                                               data[i].kind = "head"})]
    IN  IF ~HasDelimiter(buf) THEN w1
        ELSE
        LET p == HeadIndex(buf)
            head == buf[p]
            parsed_before == w.self.request_header_parsed
            \* the head is parsed in this call
            cl_ok == head.cl # -1
            ka == IF head.conn = "" THEN w.self.keepalive
                  ELSE IF head.conn # "close" THEN "true" ELSE "false"
            w2 == [w1 EXCEPT !.self = Upd(@,
                      [request_head_raw_length |-> p,
                       method |-> head.method, path |-> head.path,
                       accept_gzip |-> head.gzip,
                       connection |-> head.conn])]
            w3 == [w2 EXCEPT !.self = Upd(@,
                      [request_content_length |-> head.cl,
                       keepalive |-> ka])]
            got == get_message(w.cache, t, head.method, head.path)
            w4 == [w3 EXCEPT !.cache = got.cache]
            \* the world when the head has been dealt with
            w5 == IF parsed_before THEN w1
                  ELSE [w4 EXCEPT !.self.request_header_parsed = TRUE]
            cl == w5.self.request_content_length
            hp == w5.self.request_head_raw_length
            request_headers == [head EXCEPT !.conn = "", !.fwd = TRUE]
            request_body == SubSeq(buf, hp + 1, Len(buf))
            w6 == [w5 EXCEPT !.self.request_buffer =
                                 <<request_headers>> \o request_body]
        IN  IF ~parsed_before /\ ~head.ok
            THEN set_write_client_state(
                     [w1 EXCEPT !.self.response_buffer = ErrorResponse(400)])
            ELSE IF ~parsed_before /\ ~cl_ok THEN w2
            ELSE IF ~parsed_before /\ got.message # <<>>
            THEN set_write_client_state(
                     [w4 EXCEPT !.self.response_buffer = got.message,
                                !.self.hit = TRUE])
            ELSE IF Len(buf) < hp + cl THEN w5
            ELSE IF parsed_before
            THEN [w5 EXCEPT !.exc = "UnboundLocalError"]
            ELSE IF w6.self.backend_sock = None
            THEN init_backend_conn(w6, pick)
            ELSE [w6 EXCEPT !.self = Upd(@, [backend_reg |-> "W",
                                             client_reg |-> "",
                                             state |-> "WRITE_BACKEND"])]

\* _read_request; outcome is what client_sock.recv does
read_request(w, t, outcome, data, pick) ==
    CASE outcome \in {"BlockingIOError", "SSLWantReadError"} -> w
      [] outcome = "Exception" -> close(w)
      [] outcome = "eof" -> close(w)
      [] OTHER -> read_request_data(w, t, data, pick)

confirm_backend_conn_unbounded(w, err, pick) ==
    IF w.self.backend_sock # None /\ err = 0
    THEN [w EXCEPT !.self = Upd(@, [state |-> "WRITE_BACKEND",
                                    backend_sock |-> "up"])]
    ELSE
        LET addr == w.self.backend_addr
            n == w.failed[addr] + 1
            evict == n > FAILURE_THRESHOLD /\ addr # None
            w1 == [w EXCEPT
                     !.failed[addr] = IF evict THEN 0 ELSE n,
                     !.lb = IF evict THEN remove_server(@, addr) ELSE @,
                     !.self = Upd(@, [backend_sock |-> None,
                                      backend_reg |-> "",
                                      backend_addr |-> None,
                                      retries |-> w.self.retries + 1])]
        IN  init_backend_conn(w1, pick)

\* _confirm_backend_conn; err is SO_ERROR of the backend socket
confirm_backend_conn(w, err, pick) ==
    IF w.self.backend_sock # None /\ err = 0
    THEN [w EXCEPT !.self = Upd(@, [state |-> "WRITE_BACKEND",
                                    backend_sock |-> "up"])]
    ELSE IF w.self.retries < MAX_RETRIES
    THEN
        LET addr == w.self.backend_addr
            n == w.failed[addr] + 1
            evict == n > FAILURE_THRESHOLD /\ addr # None
            w1 == [w EXCEPT
                     !.failed[addr] = IF evict THEN 0 ELSE n,
                     !.lb = IF evict THEN remove_server(@, addr) ELSE @,
                     !.self = Upd(@, [backend_sock |-> None,
                                      backend_reg |-> "",
                                      backend_addr |-> None,
                                      retries |-> w.self.retries + 1])]
        IN  init_backend_conn(w1, pick)
    ELSE set_write_client_state(
             [w EXCEPT !.self = Upd(@, [response_buffer |-> ErrorResponse(502),
                                        backend_sock |-> "failed"])])

\* _write_request that goes on to READ_BACKEND after any send that took bytes
write_request_early(w, outcome, n) ==
    LET buf == w.self.request_buffer
        sending == w.self.backend_sock # None /\ buf # <<>>
        sent == IF sending /\ outcome = "sent" THEN n ELSE 0
        rest == SubSeq(buf, sent + 1, Len(buf))
        w1 == [w EXCEPT !.self = Upd(@,
                  [request_buffer |-> rest,
                   to_backend |-> w.self.to_backend \o SubSeq(buf, 1, sent)])]
    IN  IF sending /\ outcome = "OSError" THEN [w EXCEPT !.exc = "OSError"]
        ELSE IF sending /\ outcome = "sent" /\ n = 0 THEN w
        ELSE IF w1.self.backend_sock # None /\ (rest = <<>> \/ sent > 0)
        THEN [w1 EXCEPT !.self = Upd(@, [backend_reg |-> "R",
                                         state |-> "READ_BACKEND"])]
        ELSE w1

\* _write_request; outcome is what backend_sock.send does: "sent" with the
\* number n of bytes taken, or the exception raised
write_request(w, outcome, n) ==
    LET buf == w.self.request_buffer
        sending == w.self.backend_sock # None /\ buf # <<>>
        sent == IF sending /\ outcome = "sent" THEN n ELSE 0
        rest == SubSeq(buf, sent + 1, Len(buf))
        w1 == [w EXCEPT !.self = Upd(@,
                  [request_buffer |-> rest,
                   to_backend |-> w.self.to_backend \o SubSeq(buf, 1, sent)])]
    IN  IF sending /\ outcome = "OSError" THEN [w EXCEPT !.exc = "OSError"]
        ELSE IF sending /\ outcome = "sent" /\ n = 0 THEN w
        ELSE IF w1.self.backend_sock # None /\ rest = <<>>
        THEN [w1 EXCEPT !.self = Upd(@, [backend_reg |-> "R",
                                         state |-> "READ_BACKEND"])]
        ELSE w1

\* the part of _read_response that follows a successful recv of data
read_response_data(w, t, data) ==
    LET buf == w.self.response_buffer \o data
        w1 == [w EXCEPT !.self.response_buffer = buf]
    IN  IF ~HasDelimiter(buf) THEN w1
        ELSE
        LET p == HeadIndex(buf)
            head == buf[p]
            parsed_before == w.self.response_header_parsed
            w1p == [w1 EXCEPT !.self.response_head_raw_length = p]
            w2 == [w1p EXCEPT !.self.response_head = head]
            w3 == IF parsed_before THEN w1
                  ELSE [w2 EXCEPT !.self = Upd(@,
                          [response_content_length |-> head.cl,
                           response_header_parsed |-> TRUE])]
            cl == w3.self.response_content_length
            hp == w3.self.response_head_raw_length
            body == SubSeq(buf, hp + 1, Len(buf))
            zip == w3.self.accept_gzip /\ ~w3.self.response_head.ce
            response_body == IF zip THEN compress_response(body) ELSE body
            response_headers ==
                IF zip THEN [w3.self.response_head EXCEPT
                                !.cl = Len(response_body), !.gzip = TRUE]
                ELSE w3.self.response_head
            out == <<response_headers>> \o response_body
            max_age == w3.self.response_head.max_age
            w4 == [w3 EXCEPT
                     !.self.response_buffer = out,
                     !.self.response_head = response_headers,
                     !.cache = IF max_age > 0
                               THEN add_message(@, t, w3.self.method,
                                                w3.self.path, out, max_age)
                               ELSE @]
        IN  IF ~parsed_before /\ ~head.ok THEN w1p
            ELSE IF ~parsed_before /\ head.cl = -1 THEN w2
            ELSE IF Len(buf) < hp + cl THEN w3
            ELSE set_write_client_state(w4)

\* _read_response; outcome is what backend_sock.recv does
read_response(w, t, outcome, data) ==
    CASE outcome = "BlockingIOError" -> w
      [] outcome = "OSError" -> [w EXCEPT !.exc = "OSError"]
      [] outcome = "eof" -> close(w)
      [] OTHER -> read_response_data(w, t, data)

write_client_noreset(w, outcome, n) ==
    LET buf == w.self.response_buffer
        sending == buf # <<>>
        sent == IF sending /\ outcome = "sent" THEN n ELSE 0
        rest == SubSeq(buf, sent + 1, Len(buf))
        w1 == [w EXCEPT !.self = Upd(@,
                  [response_buffer |-> rest,
                   to_client |-> w.self.to_client \o SubSeq(buf, 1, sent)])]
    IN  IF sending /\ outcome \in {"OSError", "SSLWantWriteError"}
        THEN [w EXCEPT !.exc = outcome]
        ELSE IF sending /\ outcome = "sent" /\ n = 0 THEN w
        ELSE IF rest # <<>> THEN w1
        ELSE IF w1.self.keepalive = "true"
        THEN [w1 EXCEPT !.self =
                 Upd(@, [client_reg |-> "R", state |-> "READ_REQUEST",
                         responses |-> w.self.responses +
                                       (IF sending THEN 1 ELSE 0)])]
        ELSE [w1 EXCEPT !.self = Upd(@, [client_reg |-> "R",
                                         state |-> "CLEANUP",
                                         responses |-> w.self.responses +
                                           (IF sending THEN 1 ELSE 0)])]

\* _write_client that keeps the bytes it sent in response_buffer
write_client_resend(w, outcome, n) ==
    LET buf == w.self.response_buffer
        sending == buf # <<>>
        sent == IF sending /\ outcome = "sent" THEN n ELSE 0
        rest == buf
        w1 == [w EXCEPT !.self = Upd(@,
                  [response_buffer |-> rest,
                   to_client |-> w.self.to_client \o SubSeq(buf, 1, sent)])]
    IN  IF sending /\ outcome \in {"OSError", "SSLWantWriteError"}
        THEN [w EXCEPT !.exc = outcome]
        ELSE IF sending /\ outcome = "sent" /\ n = 0 THEN w
        ELSE IF rest # <<>> THEN w1
        ELSE IF w1.self.keepalive = "true"
        THEN [w1 EXCEPT !.self =
                 init_connection_info(
                     Upd(@, [client_reg |-> "R", state |-> "READ_REQUEST",
                             responses |-> w.self.responses +
                                           (IF sending THEN 1 ELSE 0)]))]
        ELSE [w1 EXCEPT !.self = Upd(@, [client_reg |-> "R",
                                         state |-> "CLEANUP",
                                         responses |-> w.self.responses +
                                           (IF sending THEN 1 ELSE 0)])]

\* _write_client; outcome is what client_sock.send does
write_client(w, outcome, n) ==
    LET buf == w.self.response_buffer
        sending == buf # <<>>
        sent == IF sending /\ outcome = "sent" THEN n ELSE 0
        rest == SubSeq(buf, sent + 1, Len(buf))
        w1 == [w EXCEPT !.self = Upd(@,
                  [response_buffer |-> rest,
                   to_client |-> w.self.to_client \o SubSeq(buf, 1, sent)])]
    IN  IF sending /\ outcome \in {"OSError", "SSLWantWriteError"}
        THEN [w EXCEPT !.exc = outcome]
        ELSE IF sending /\ outcome = "sent" /\ n = 0 THEN w
        ELSE IF rest # <<>> THEN w1
        ELSE IF w1.self.keepalive = "true"
        THEN [w1 EXCEPT !.self =
                 init_connection_info(
                     Upd(@, [client_reg |-> "R", state |-> "READ_REQUEST",
                             responses |-> w.self.responses +
                                           (IF sending THEN 1 ELSE 0)]))]
        ELSE [w1 EXCEPT !.self = Upd(@, [client_reg |-> "R",
                                         state |-> "CLEANUP",
                                         responses |-> w.self.responses +
                                           (IF sending THEN 1 ELSE 0)])]

\* what a handler is given: the outcome of its socket call, the number of
\* bytes a send takes, the data a recv returns, SO_ERROR, random.choice's draw
NoInput == [outcome |-> "", n |-> 0, data |-> <<>>, err |-> 0, pick |-> 1]

\* process_events; mask is "R" or "W"
process_events(w, t, mask, in) ==
    LET w0 == [w EXCEPT !.self.last_active = t]
        st == w.self.state
        w1 == CASE st = "TLS_HANDSHAKE" -> handshake(w0, in.outcome)
                [] st = "READ_REQUEST" /\ mask = "R" ->
                     read_request(w0, t, in.outcome, in.data, in.pick)
                [] st = "CONNECT_BACKEND" /\ mask = "W" ->
                     confirm_backend_conn(w0, in.err, in.pick)
                [] st = "WRITE_BACKEND" /\ mask = "W" ->
                     write_request(w0, in.outcome, in.n)
                [] st = "READ_BACKEND" /\ mask = "R" ->
                     read_response(w0, t, in.outcome, in.data)
                [] st = "WRITE_CLIENT" /\ mask = "W" ->
                     write_client(w0, in.outcome, in.n)
                [] OTHER -> w0
    IN  IF w1.exc = "" /\ w1.self.state = "CLEANUP" THEN close(w1) ELSE w1

---------------------------------------------------------------------------
(***************************************************************************)
(* The HTTP codec, on bytes.  A byte string is a sequence of bytes; each   *)
(* byte is written as a short string: "CR", "LF", "SP" and "TAB" are       *)
(* \r, \n, the space and the tab, "xFF" is a byte that is not UTF-8, every *)
(* other one is the ASCII character it names, or, for "Content-Length",    *)
(* "gzip" and the like, a word of ASCII letters taken as one piece.  A str *)
(* is the sequence of its characters.                                      *)
(***************************************************************************)
CRLF == <<"CR", "LF">>
HEADER_DELIMITER == <<"CR", "LF", "CR", "LF">>
ColonSpace == <<":", "SP">>

\* the bytes bytes.split() takes for white space
Whitespace == {"SP", "TAB", "CR", "LF"}

\* bytes.find(sep) + 1: the first place where sep occurs in b, 0 if none
Find(b, sep) ==
    LET at == {i \in 1..(Len(b) - Len(sep) + 1) :
                  SubSeq(b, i, i + Len(sep) - 1) = sep}
    IN  IF at = {} THEN 0 ELSE CHOOSE i \in at : \A j \in at : i <= j

\* b.split(sep)
RECURSIVE split(_, _)
split(b, sep) ==
    LET i == Find(b, sep)
    IN  IF i = 0 THEN <<b>>
        ELSE <<SubSeq(b, 1, i - 1)>>
             \o split(SubSeq(b, i + Len(sep), Len(b)), sep)

\* b.split(): the runs of bytes that are not white space
RECURSIVE split_whitespace(_)
split_whitespace(b) ==
    IF b = <<>> THEN <<>>
    ELSE IF b[1] \in Whitespace THEN split_whitespace(Tail(b))
    ELSE LET ends == {i \in 1..Len(b) : b[i] \in Whitespace}
             n == IF ends = {} THEN Len(b) + 1
                  ELSE CHOOSE i \in ends : \A j \in ends : i <= j
         IN  <<SubSeq(b, 1, n - 1)>>
             \o split_whitespace(SubSeq(b, n, Len(b)))

\* b.partition(sep)
partition(b, sep) ==
    LET i == Find(b, sep)
    IN  IF i = 0 THEN <<b, <<>>, <<>>>>
        ELSE <<SubSeq(b, 1, i - 1), sep, SubSeq(b, i + Len(sep), Len(b))>>

\* b.decode('utf-8'): UnicodeDecodeError (a ValueError) on a byte that is
\* not UTF-8, else the characters of b
decode(b) ==
    IF \E i \in 1..Len(b) : b[i] = "xFF"
    THEN [exc |-> "UnicodeDecodeError", str |-> <<>>]
    ELSE [exc |-> "", str |-> b]

\* s.encode('utf-8')
encode(s) == s

\* the loop of parse_request and parse_response over the header lines: d is
\* the dict built so far
RECURSIVE parse_headers(_, _)
parse_headers(raw_list, d) ==
    IF raw_list = <<>> THEN [exc |-> "", headers |-> d]
    ELSE LET header == split(Head(raw_list), ColonSpace)
         IN  IF Len(header) # 2
             THEN [exc |-> "ValueError", headers |-> <<>>]
             ELSE parse_headers(Tail(raw_list),
                                DictSet(d, header[1], header[2]))

\* the dict comprehension that decodes the keys and values of d
RECURSIVE decode_headers(_)
decode_headers(d) ==
    IF d = <<>> THEN [exc |-> "", headers |-> <<>>]
    ELSE LET k == decode(d[1][1])
             v == decode(d[1][2])
             rest == decode_headers(Tail(d))
         IN  IF k.exc # "" \/ v.exc # "" \/ rest.exc # ""
             THEN [exc |-> "UnicodeDecodeError", headers |-> <<>>]
             ELSE [exc |-> "",
                   headers |-> <<<<k.str, v.str>>>> \o rest.headers]

ParseError(e) == [exc |-> e, line |-> <<>>, headers |-> <<>>]

\* parse_request
parse_request(header) ==
    LET lines == split(header, CRLF)
        raw == parse_headers(Tail(lines), <<>>)
        line == decode(lines[1])
        decoded == decode_headers(raw.headers)
    IN  IF Len(split_whitespace(lines[1])) # 3 THEN ParseError("ValueError")
        ELSE IF raw.exc # "" THEN ParseError(raw.exc)
        ELSE IF line.exc # "" THEN ParseError(line.exc)
        ELSE IF decoded.exc # "" THEN ParseError(decoded.exc)
        ELSE [exc |-> "", line |-> line.str, headers |-> decoded.headers]

\* parse_response
parse_response(header) ==
    LET lines == split(header, CRLF)
        raw == parse_headers(Tail(lines), <<>>)
        line == decode(lines[1])
        decoded == decode_headers(raw.headers)
    IN  IF raw.exc # "" THEN ParseError(raw.exc)
        ELSE IF line.exc # "" THEN ParseError(line.exc)
        ELSE IF decoded.exc # "" THEN ParseError(decoded.exc)
        ELSE [exc |-> "", line |-> line.str, headers |-> decoded.headers]

\* the loop of reconstruct_request and reconstruct_response over the dict
RECURSIVE header_bytes(_)
header_bytes(headers) ==
    IF headers = <<>> THEN <<>>
    ELSE encode(headers[1][1] \o ColonSpace \o headers[1][2] \o CRLF)
         \o header_bytes(Tail(headers))

\* reconstruct_request mutated: the headers are emitted last to first
RECURSIVE header_bytes_reversed(_)
header_bytes_reversed(headers) ==
    IF headers = <<>> THEN <<>>
    ELSE header_bytes_reversed(Tail(headers))
         \o encode(headers[1][1] \o ColonSpace \o headers[1][2] \o CRLF)

reconstruct_request_reversed(request_line, request_headers, body) ==
    encode(request_line \o CRLF) \o header_bytes_reversed(request_headers)
        \o CRLF \o (IF body # <<>> THEN body ELSE <<>>)

\* reconstruct_request
reconstruct_request(request_line, request_headers, body) ==
    encode(request_line \o CRLF) \o header_bytes(request_headers)
        \o CRLF \o (IF body # <<>> THEN body ELSE <<>>)

\* reconstruct_response
reconstruct_response(response_line, response_headers, body) ==
    encode(response_line \o CRLF) \o header_bytes(response_headers)
        \o CRLF \o (IF body # <<>> THEN body ELSE <<>>)

\* str.lower() on a character or word
lower_word(x) ==
    CASE x \in {"Content-Length", "CONTENT-LENGTH"} -> "content-length"
      [] x \in {"Content-Encoding", "CONTENT-ENCODING"} -> "content-encoding"
      [] x \in {"Connection", "CONNECTION"} -> "connection"
      [] x = "Keep-Alive" -> "keep-alive"
      [] x = "X-Forwarded-For" -> "x-forwarded-for"
      [] x = "X-Forwarded-Proto" -> "x-forwarded-proto"
      [] x = "K" -> "k"
      [] x = "GZIP" -> "gzip"
      [] x \in {"Cache-Control", "CACHE-CONTROL"} -> "cache-control"
      [] x = "Max-Age" -> "max-age"
      [] OTHER -> x

\* s.lower()
lower(s) == [i \in 1..Len(s) |-> lower_word(s[i])]

\* {key.lower(): value.lower() for key, value in headers.items()}
RECURSIVE lower_headers(_, _)
lower_headers(headers, d) ==
    IF headers = <<>> THEN d
    ELSE lower_headers(Tail(headers),
                       DictSet(d, lower(headers[1][1]), lower(headers[1][2])))

\* str(n)
RECURSIVE str(_)
str(n) ==
    LET digits == <<"0", "1", "2", "3", "4", "5", "6", "7", "8", "9">>
    IN  IF n < 10 THEN <<digits[n + 1]>>
        ELSE str(n \div 10) \o <<digits[(n % 10) + 1]>>

\* gzip.compress on bytes: the magic number, the deflate stream of the body
\* (stored as it is), the checksum
gzip_compress(response_body) == <<"x1F", "x8B">> \o response_body \o <<"crc">>

\* the end of _read_response on a complete response: gzip negotiation and
\* reconstruction.  accept is the lowered Accept-Encoding value of the
\* request, None when the request had none
encode_response(accept, response_line, response_headers, response_body) ==
    LET response_headers_lower == lower_headers(response_headers, <<>>)
        zip == /\ accept # None
               /\ ~DictHas(response_headers_lower, <<"content-encoding">>)
               /\ \E i \in 1..Len(accept) : accept[i] = "gzip"
        body == IF zip THEN gzip_compress(response_body) ELSE response_body
        headers ==
            IF zip
            THEN DictSet(DictSet(response_headers, <<"Content-Length">>,
                                 str(Len(body))),
                         <<"Content-Encoding">>, <<"gzip">>)
            ELSE response_headers
    IN  reconstruct_response(response_line, headers, body)

\* int(s) on a run of decimal digits
RECURSIVE int(_)
int(s) ==
    IF s = <<>> THEN 0
    ELSE int(SubSeq(s, 1, Len(s) - 1)) * 10
            + (CHOOSE n \in 0..9 : str(n) = <<s[Len(s)]>>)

\* get_cache_control without the optional quote of the pattern
get_cache_control_unquoted(directives) ==
    LET d == directives
        NonWord == {"SP", ",", ";", "=", "DQ"}
        IsDigit(i) == i <= Len(d) /\ \E n \in 0..9 : str(n) = <<d[i]>>
        matches == {i \in 1..Len(d) :
                       /\ d[i] = "max-age"
                       /\ i = 1 \/ d[i - 1] \in NonWord
                       /\ i + 1 <= Len(d) /\ d[i + 1] = "="
                       /\ IsDigit(i + 2)}
        match == CHOOSE i \in matches : \A j \in matches : i <= j
        last == CHOOSE k \in (match + 2)..Len(d) :
                    /\ \A j \in (match + 2)..k : IsDigit(j)
                    /\ ~IsDigit(k + 1)
    IN  IF matches = {} THEN 0
        ELSE int(SubSeq(d, match + 2, last))

\* get_cache_control(directives): re.search(r'\bmax-age="?(\d+)') on the
\* lowered header value, the number of the leftmost match or 0.  A word
\* boundary stands before max-age at the start of the value and after a
\* character that is no letter, digit or underscore
get_cache_control(directives) ==
    LET d == directives
        NonWord == {"SP", ",", ";", "=", "DQ"}
        IsDigit(i) == i <= Len(d) /\ \E n \in 0..9 : str(n) = <<d[i]>>
        group(i) == IF i + 2 <= Len(d) /\ d[i + 2] = "DQ" THEN i + 3
                    ELSE i + 2
        matches == {i \in 1..Len(d) :
                       /\ d[i] = "max-age"
                       /\ i = 1 \/ d[i - 1] \in NonWord
                       /\ i + 1 <= Len(d) /\ d[i + 1] = "="
                       /\ IsDigit(group(i))}
        match == CHOOSE i \in matches : \A j \in matches : i <= j
        last == CHOOSE k \in group(match)..Len(d) :
                    /\ \A j \in group(match)..k : IsDigit(j)
                    /\ ~IsDigit(k + 1)
    IN  IF matches = {} THEN 0
        ELSE int(SubSeq(d, group(match), last))

\* the caching step of _read_response: the reconstructed response is
\* stored under (method, path) when the lowered headers hold a
\* cache-control whose max-age is not 0.  t is time.time()
cache_response(cache, t, method, path, response_headers, response_buffer) ==
    LET response_headers_lower == lower_headers(response_headers, <<>>)
        max_age ==
            get_cache_control(DictGet(response_headers_lower,
                                      <<"cache-control">>))
    IN  IF /\ DictHas(response_headers_lower, <<"cache-control">>)
           /\ max_age # 0
        THEN add_message(cache, t, method, path, response_buffer, max_age)
        ELSE cache

\* the part of _read_request that turns a complete request into the bytes
\* for the backend: the Connection header is popped, the two X-Forwarded
\* headers are set, the request is reconstructed.  client_ip is
\* client_addr[0]
rewrite_request(client_ip, request_head_raw, request_body) ==
    LET r == parse_request(request_head_raw)
        request_headers_lower == lower_headers(r.headers, <<>>)
        keys == {i \in 1..Len(r.headers) :
                    lower(r.headers[i][1]) = <<"connection">>}
        _request_connection_key ==
            r.headers[CHOOSE i \in keys : \A j \in keys : i <= j][1]
        popped == IF DictHas(request_headers_lower, <<"connection">>)
                  THEN DictDel(r.headers, _request_connection_key)
                  ELSE r.headers
        request_headers ==
            DictSet(DictSet(popped, <<"X-Forwarded-For">>, client_ip),
                    <<"X-Forwarded-Proto">>, <<"https">>)
    IN  [exc |-> r.exc,
         line |-> r.line,
         headers |-> IF r.exc # "" THEN <<>> ELSE request_headers,
         out |-> IF r.exc # "" THEN <<>>
                 ELSE reconstruct_request(r.line, request_headers,
                                          request_body)]

---------------------------------------------------------------------------
VARIABLES
    LOAD_BALANCER,  \* ConnectionContext.LOAD_BALANCER: the LoadBalancer
    lb_ret,         \* the last stand-alone load balancer call and its result
    CACHE,          \* ConnectionContext.CACHE: Cache.cache
    cache_ret,      \* the last stand-alone cache call and its result
    now,            \* time.time()
    POOL,           \* ConnectionContext.POOL: ConnectionPool.pool
    socks,          \* every backend socket made for the pool: its condition
    pool_ret,       \* the last pool call and its result
    ctx,            \* the ConnectionContext of every accepted connection
    FAILED_SERVERS, \* ConnectionContext.FAILED_SERVERS (0: no key)
    loop_exc,       \* the exception that ended main's loop ("": running)
    codec           \* the last stand-alone codec call: arguments and result

lbVars == <<LOAD_BALANCER, lb_ret>>
cacheVars == <<CACHE, cache_ret>>
poolVars == <<POOL, socks, pool_ret>>
ctxVars == <<ctx, FAILED_SERVERS, loop_exc>>
vars == <<LOAD_BALANCER, lb_ret, CACHE, cache_ret, now, POOL, socks, pool_ret,
          ctx, FAILED_SERVERS, loop_exc,
         codec>>

Contexts == {1}

NoCall == [op |-> "none"]

\* the state after construction (main.py lines 71 to 76)
InitShared(alg) ==
    /\ codec = NoCall
    /\ LOAD_BALANCER = LoadBalancerInit(alg)
    /\ lb_ret = NoCall
    /\ CACHE = CacheInit
    /\ cache_ret = NoCall
    /\ now = 0
    /\ POOL = PoolInit
    /\ socks = [s \in Socks |-> "unused"]
    /\ pool_ret = NoCall
    /\ ctx = [c \in Contexts |-> NoContext]
    /\ FAILED_SERVERS = [a \in AllAddrs |-> 0]
    /\ loop_exc = ""

\* time passes
Tick ==
    /\ now < MaxTime
    /\ now' = now + 1
    /\ UNCHANGED ctx
    /\ UNCHANGED <<codec, lbVars, cacheVars, poolVars, FAILED_SERVERS, loop_exc>>

---------------------------------------------------------------------------
(***************************************************************************)
(* The load balancer on its own: any sequence of its operations.           *)
(***************************************************************************)
LBGetServer(ip, pick) ==
    /\ LOAD_BALANCER.ROUND_ROBIN_COUNTER < MaxCounter
    /\ LET r == get_server(LOAD_BALANCER, ip, pick)
       IN  /\ LOAD_BALANCER' = r.lb
           /\ lb_ret' = [op |-> "get_server", exc |-> r.exc, server |-> r.server,
                         before |-> 0]
    /\ UNCHANGED <<codec, cacheVars, now, poolVars, ctxVars>>

LBAddServer(a) ==
    /\ LOAD_BALANCER' = add_server(LOAD_BALANCER, a)
    /\ lb_ret' = [op |-> "add_server", exc |-> "", server |-> a, before |-> 0]
    /\ UNCHANGED <<codec, cacheVars, now, poolVars, ctxVars>>

LBRemoveServer(a) ==
    /\ LOAD_BALANCER' = remove_server(LOAD_BALANCER, a)
    /\ lb_ret' = [op |-> "remove_server", exc |-> "", server |-> a, before |-> 0]
    /\ UNCHANGED <<codec, cacheVars, now, poolVars, ctxVars>>

LBIncrement(a) ==
    /\ ActiveCount(LOAD_BALANCER, a) < MaxCount
    /\ LOAD_BALANCER' = increment_connection(LOAD_BALANCER, a)
    /\ lb_ret' = [op |-> "increment", exc |-> "", server |-> a,
                  before |-> ActiveCount(LOAD_BALANCER, a)]
    /\ UNCHANGED <<codec, cacheVars, now, poolVars, ctxVars>>

LBDecrement(a) ==
    /\ LOAD_BALANCER' = decrement_connection(LOAD_BALANCER, a)
    /\ lb_ret' = [op |-> "decrement", exc |-> "", server |-> a,
                  before |-> ActiveCount(LOAD_BALANCER, a)]
    /\ UNCHANGED <<codec, cacheVars, now, poolVars, ctxVars>>

InitLB == \E alg \in Algorithms : InitShared(alg)

NextLB ==
    \/ \E ip \in ClientIps, pick \in 1..3 : LBGetServer(ip, pick)
    \/ \E a \in AllAddrs : LBAddServer(a)
    \/ \E a \in AllAddrs : LBRemoveServer(a)
    \/ \E a \in AllAddrs : LBIncrement(a)
    \/ \E a \in AllAddrs : LBDecrement(a)

SpecLB == InitLB /\ [][NextLB]_vars

---------------------------------------------------------------------------
(***************************************************************************)
(* The load balancer between its two threads: the data-plane, which calls  *)
(* get_server, _increment_connection, _decrement_connection and            *)
(* _remove_server from the handlers of the event loop, and the discovery   *)
(* thread, which handles one announced address per step.  Only the         *)
(* data-plane ever changes the load balancer, so the steps of its calls    *)
(* need no finer grain than the call.                                      *)
(***************************************************************************)
\* the methods class LoadBalancer defines
LoadBalancerAttrs ==
    {"get_server", "_get_round_robin_server", "_get_random_server",
     "_get_least_connections_server", "_get_ip_hash_server", "_add_server",
     "_remove_server", "_increment_connection", "_decrement_connection"}

\* LOAD_BALANCER.<name>(server) for a name that changes the registry:
\* [exc, lb]; Python looks the attribute up before it calls anything
call_method(lb, name, server) ==
    CASE name \notin LoadBalancerAttrs -> [exc |-> "AttributeError", lb |-> lb]
      [] name = "_add_server" -> [exc |-> "", lb |-> add_server(lb, server)]
      [] name = "_remove_server" ->
           [exc |-> "", lb |-> remove_server(lb, server)]
      [] OTHER -> [exc |-> "", lb |-> lb]

\* discover_servers for one well-formed line "ip,port": exc is what the
\* call of the load balancer raised and the handler of the thread logged
DiscoverServers(a) ==
    /\ LET r == call_method(LOAD_BALANCER, "add_server", a)
       IN  /\ LOAD_BALANCER' = r.lb
           /\ lb_ret' = [op |-> "discover_servers", exc |-> r.exc,
                         server |-> a, before |-> 0]
    /\ UNCHANGED <<codec, cacheVars, now, poolVars, ctxVars>>

NextDiscovery ==
    \/ \E ip \in ClientIps, pick \in 1..3 : LBGetServer(ip, pick)
    \/ \E a \in AllAddrs : LBRemoveServer(a)
    \/ \E a \in AllAddrs : LBIncrement(a)
    \/ \E a \in AllAddrs : LBDecrement(a)
    \/ \E a \in AllAddrs : DiscoverServers(a)

SpecDiscovery == InitLB /\ [][NextDiscovery]_vars

---------------------------------------------------------------------------
(***************************************************************************)
(* The cache on its own: any sequence of add_message and get_message.      *)
(***************************************************************************)
CacheAdd(m, p, msg, age) ==
    /\ CACHE' = add_message(CACHE, now, m, p, msg, age)
    /\ cache_ret' = [op |-> "add_message", key |-> <<m, p>>, message |-> msg,
                     entry |-> CACHE[<<m, p>>], at |-> now, max_age |-> age]
    /\ UNCHANGED <<codec, lbVars, now, poolVars, ctxVars>>

CacheGet(m, p) ==
    /\ LET r == get_message(CACHE, now, m, p)
       IN  /\ CACHE' = r.cache
           /\ cache_ret' = [op |-> "get_message", key |-> <<m, p>>,
                            message |-> r.message, entry |-> CACHE[<<m, p>>],
                            at |-> now, max_age |-> 0]
    /\ UNCHANGED <<codec, lbVars, now, poolVars, ctxVars>>

InitCache == InitShared("LEAST_CONNECTIONS")

NextCache ==
    \/ \E m \in Methods, p \in Paths, msg \in Messages, age \in MaxAges :
          CacheAdd(m, p, msg, age)
    \/ \E m \in Methods, p \in Paths : CacheGet(m, p)
    \/ Tick

SpecCache == InitCache /\ [][NextCache]_vars

---------------------------------------------------------------------------
(***************************************************************************)
(* The pool on its own: the data-plane's get_connection and                *)
(* release_connection and the cleanup thread's cleanup, each under         *)
(* pool_lock.                                                              *)
(***************************************************************************)
\* len(self.pool[addr]) as release_connection reads it (0: no such key)
QueueLen(pool, a) == IF a \in DOMAIN pool THEN Len(pool[a]) ELSE 0

\* the socket _create_connection would make next
Fresh == CHOOSE s \in Socks : socks[s] = "unused" /\
                              \A u \in Socks : socks[u] = "unused" => s <= u

PoolGet(a, probe, err) ==
    /\ \E s \in Socks : socks[s] = "unused"
    /\ LET r == get_connection(POOL, now, a, probe, Fresh, err)
       IN  /\ POOL' = r.pool
           /\ socks' = [s \in Socks |->
                          IF s \in r.closed THEN "closed"
                          ELSE IF s = r.sock THEN "held"
                          ELSE socks[s]]
           /\ pool_ret' = [op |-> "get_connection", addr |-> a, sock |-> r.sock,
                           before |-> QueueLen(POOL, a),
                           created |-> r.created]
    /\ UNCHANGED <<codec, lbVars, cacheVars, now, ctxVars>>

PoolRelease(a, s) ==
    /\ socks[s] = "held"
    /\ LET r == release_connection(POOL, now, a, s)
       IN  /\ POOL' = r.pool
           /\ socks' = [u \in Socks |->
                          IF u \in r.closed THEN "closed"
                          ELSE IF u = s THEN "pooled"
                          ELSE socks[u]]
           /\ pool_ret' = [op |-> "release_connection", addr |-> a, sock |-> s,
                           before |-> QueueLen(POOL, a), created |-> FALSE]
    /\ UNCHANGED <<codec, lbVars, cacheVars, now, ctxVars>>

PoolCleanup ==
    /\ LET r == cleanup(POOL, now)
       IN  /\ POOL' = r.pool
           /\ socks' = [u \in Socks |->
                          IF u \in r.closed THEN "closed" ELSE socks[u]]
           /\ pool_ret' = [op |-> "cleanup", addr |-> None, sock |-> 0,
                           before |-> 0, created |-> FALSE]
    /\ UNCHANGED <<codec, lbVars, cacheVars, now, ctxVars>>

InitPool == InitShared("LEAST_CONNECTIONS")

NextPool ==
    \/ \E a \in AllAddrs, probe \in [Socks -> Probes], err \in BOOLEAN :
          PoolGet(a, probe, err)
    \/ \E a \in AllAddrs, s \in Socks : PoolRelease(a, s)
    \/ PoolCleanup
    \/ Tick

SpecPool == InitPool /\ [][NextPool]_vars

---------------------------------------------------------------------------
(***************************************************************************)
(* The proxy: main's loop accepts connections, hands every readiness event *)
(* to process_events of the context it belongs to, and sweeps the idle     *)
(* contexts.  The data-plane has one thread: every handler is one step.    *)
(***************************************************************************)
World(c) == [self |-> ctx[c], lb |-> LOAD_BALANCER, cache |-> CACHE,
             failed |-> FAILED_SERVERS, exc |-> ""]

\* A closed context is registered nowhere, so nothing refers to it any more
\* and Python frees it: what stays in its slot is the state it ended in and
\* what its sockets had accepted.
Freed(self) ==
    IF self.client_sock # "closed" THEN self
    ELSE Upd(NoContext, [state |-> self.state,
                         client_sock |-> "closed",
                         client_addr |-> self.client_addr,
                         backend_sock |-> self.backend_sock,
                         to_client |-> self.to_client,
                         to_backend |-> self.to_backend,
                         attempts |-> self.attempts,
                         requests |-> self.requests,
                         responses |-> self.responses,
                         hit |-> self.hit])

Commit(c, w) ==
    /\ ctx' = [ctx EXCEPT ![c] = IF w.exc = "" THEN Freed(w.self) ELSE w.self]
    /\ LOAD_BALANCER' = w.lb
    /\ CACHE' = w.cache
    /\ FAILED_SERVERS' = w.failed
    /\ loop_exc' = w.exc
    /\ UNCHANGED <<codec, lb_ret, cache_ret, now, poolVars>>

\* the selector reports an event of mask on a socket of context c
Ready(c, mask) ==
    /\ loop_exc = ""
    /\ ctx[c].client_reg = mask \/ ctx[c].backend_reg = mask

\* random.choice's possible draws
Picks == IF LOAD_BALANCER.algorithm = "RANDOM"
         THEN 1..Len(LOAD_BALANCER.servers_list) \cup {1} ELSE {1}

\* what the client may send next, given what the context has buffered
RequestChunks(self) ==
    {d \in IF HasDelimiter(self.request_buffer) THEN {<<Body>>}
           ELSE {<<Junk>>} \cup {<<h>> : h \in RequestHeads}
                \cup {<<h, Body>> : h \in {x \in RequestHeads : x.cl = 1}} :
        /\ Len(self.request_buffer) + Len(d) <= MaxBuf
        /\ d[1].kind = "head" => self.requests < MaxReq}

\* what the backend may send next
ResponseChunks(self) ==
    {d \in IF HasDelimiter(self.response_buffer) THEN {<<Body>>}
           ELSE {<<Junk>>} \cup {<<h>> : h \in ResponseHeads}
                \cup {<<h, Body>> : h \in {x \in ResponseHeads : x.cl = 1}} :
        Len(self.response_buffer) + Len(d) <= MaxBuf}

\* accept_connection
Accept(c) ==
    /\ loop_exc = ""
    /\ ctx[c].state = "NONE"
    /\ ctx' = [ctx EXCEPT ![c] = NewContext(ClientAddr(c), now)]
    /\ UNCHANGED <<codec, lbVars, cacheVars, now, poolVars, FAILED_SERVERS, loop_exc>>

Handshake(c) ==
    /\ ctx[c].state = "TLS_HANDSHAKE"
    /\ \E mask \in {"R", "W"} :
          /\ Ready(c, mask)
          /\ \E o \in {"SSLWantReadError", "SSLWantWriteError", "Exception",
                       "done"} :
                Commit(c, process_events(World(c), now, mask,
                                         [NoInput EXCEPT !.outcome = o]))

ReadRequest(c) ==
    /\ ctx[c].state = "READ_REQUEST"
    /\ Ready(c, "R")
    /\ \E in \in {[NoInput EXCEPT !.outcome = o] :
                     o \in {"BlockingIOError", "Exception", "eof"}}
                 \cup {[NoInput EXCEPT !.outcome = "data", !.data = d,
                                       !.pick = k] :
                         d \in RequestChunks(ctx[c]), k \in Picks} :
          Commit(c, process_events(World(c), now, "R", in))

ConfirmBackendConn(c, errs) ==
    /\ ctx[c].state = "CONNECT_BACKEND"
    /\ Ready(c, "W")
    /\ \E e \in errs, k \in Picks :
          Commit(c, process_events(World(c), now, "W",
                                   [NoInput EXCEPT !.err = e, !.pick = k]))

\* what send may do on a socket with buf to send; a socket whose connect
\* failed takes nothing
SendOutcomes(buf, sock) ==
    {[NoInput EXCEPT !.outcome = "OSError"]} \cup
    IF sock = "failed" THEN {}
    ELSE {[NoInput EXCEPT !.outcome = "BlockingIOError"]} \cup
         {[NoInput EXCEPT !.outcome = "sent", !.n = k] : k \in 0..Len(buf)}

WriteRequest(c) ==
    /\ ctx[c].state = "WRITE_BACKEND"
    /\ Ready(c, "W")
    /\ \E in \in SendOutcomes(ctx[c].request_buffer, ctx[c].backend_sock) :
          Commit(c, process_events(World(c), now, "W", in))

ReadResponse(c) ==
    /\ ctx[c].state = "READ_BACKEND"
    /\ Ready(c, "R")
    /\ \E in \in {[NoInput EXCEPT !.outcome = o] :
                     o \in {"BlockingIOError", "OSError", "eof"}}
                 \cup {[NoInput EXCEPT !.outcome = "data", !.data = d] :
                         d \in ResponseChunks(ctx[c])} :
          Commit(c, process_events(World(c), now, "R", in))

WriteClient(c) ==
    /\ ctx[c].state = "WRITE_CLIENT"
    /\ Ready(c, "W")
    /\ \E in \in SendOutcomes(ctx[c].response_buffer, ctx[c].client_sock)
                 \cup {[NoInput EXCEPT !.outcome = "SSLWantWriteError"]} :
          Commit(c, process_events(World(c), now, "W", in))

\* an event no case of process_events matches: a write event while the
\* context reads, a read event while it connects or writes
OtherEvent(c) ==
    LET mask == IF ctx[c].state \in {"READ_REQUEST", "READ_BACKEND"}
                THEN "W" ELSE "R"
    IN  /\ ctx[c].state \in States \ {"TLS_HANDSHAKE", "CLEANUP"}
        /\ Ready(c, mask)
        /\ Commit(c, process_events(World(c), now, mask, NoInput))

\* the contexts main's sweep closes: registered and idle for too long
Idle == {c \in Contexts :
            /\ ctx[c].client_reg # "" \/ ctx[c].backend_reg # ""
            /\ now - ctx[c].last_active > TIMEOUT}

\* _close of every context of S, one after the other; the snapshot of the
\* selector's map holds one key per registered socket, so a context with
\* both sockets registered is closed twice
RECURSIVE CloseAll(_, _)
CloseAll(S, w) ==
    IF S = {} THEN w
    ELSE LET c == CHOOSE x \in S : TRUE
             r1 == close([self |-> w.ctx[c], lb |-> w.lb])
             r == IF w.ctx[c].client_reg # "" /\ w.ctx[c].backend_reg # ""
                  THEN close(r1) ELSE r1
         IN  CloseAll(S \ {c}, [ctx |-> [w.ctx EXCEPT ![c] = Freed(r.self)],
                                lb |-> r.lb])

\* the timeout sweep of main
Sweep ==
    /\ loop_exc = ""
    /\ Idle # {}
    /\ LET r == CloseAll(Idle, [ctx |-> ctx, lb |-> LOAD_BALANCER])
       IN  /\ ctx' = r.ctx
           /\ LOAD_BALANCER' = r.lb
    /\ UNCHANGED <<codec, lb_ret, cacheVars, now, poolVars, FAILED_SERVERS, loop_exc>>

Init == \E alg \in Algorithms : InitShared(alg)

Next ==
    \/ \E c \in Contexts : Accept(c)
    \/ \E c \in Contexts : Handshake(c)
    \/ \E c \in Contexts : ReadRequest(c)
    \/ \E c \in Contexts : ConfirmBackendConn(c, {0, 111})
    \/ \E c \in Contexts : WriteRequest(c)
    \/ \E c \in Contexts : ReadResponse(c)
    \/ \E c \in Contexts : WriteClient(c)
    \/ \E c \in Contexts : OtherEvent(c)
    \/ Sweep
    \/ Tick

Spec == Init /\ [][Next]_vars

---------------------------------------------------------------------------
(***************************************************************************)
(* The proxy in front of backends that all refuse the connection: every    *)
(* connect confirmation finds SO_ERROR = ECONNREFUSED, so no request is    *)
(* ever written to a backend and no response read from one.                *)
(***************************************************************************)
NextRefuse ==
    \/ \E c \in Contexts : Accept(c)
    \/ \E c \in Contexts : Handshake(c)
    \/ \E c \in Contexts : ReadRequest(c)
    \/ \E c \in Contexts : ConfirmBackendConn(c, {111})
    \/ \E c \in Contexts : WriteClient(c)
    \/ \E c \in Contexts : OtherEvent(c)
    \/ Sweep
    \/ Tick

SpecRefuse == Init /\ [][NextRefuse]_vars

---------------------------------------------------------------------------
(***************************************************************************)
(* The proxy in front of a client that sends head bytes in full reads of   *)
(* RecvSize bytes and never sends the \r\n\r\n that ends the head.          *)
(***************************************************************************)
ReadJunk(c) ==
    /\ ctx[c].state = "READ_REQUEST"
    /\ Ready(c, "R")
    /\ Len(ctx[c].request_buffer) < MaxJunk
    /\ Commit(c, process_events(World(c), now, "R",
                                [NoInput EXCEPT !.outcome = "data",
                                                !.data = <<Junk>>]))

NextFlood ==
    \/ \E c \in Contexts : Accept(c)
    \/ \E c \in Contexts : Handshake(c)
    \/ \E c \in Contexts : ReadJunk(c)
    \/ Sweep
    \/ Tick

SpecFlood == Init /\ [][NextFlood]_vars

---------------------------------------------------------------------------
(***************************************************************************)
(* The proxy started with a servers.json that lists no server, or one      *)
(* server only: the registry is empty from the start, or becomes empty     *)
(* when its one address is evicted.                                        *)
(***************************************************************************)
SmallRegistries == {<<>>, <<"A">>}

InitFew ==
    \E alg \in Algorithms, reg \in SmallRegistries :
        /\ LOAD_BALANCER =
               [LoadBalancerInit(alg) EXCEPT
                   !.servers_list = reg,
                   !.servers_dict = [i \in 1..Len(reg) |-> <<reg[i], 0>>]]
        /\ lb_ret = NoCall
        /\ CACHE = CacheInit
        /\ cache_ret = NoCall
        /\ now = 0
        /\ POOL = PoolInit
        /\ socks = [s \in Socks |-> "unused"]
        /\ pool_ret = NoCall
        /\ ctx = [c \in Contexts |-> NoContext]
        /\ FAILED_SERVERS = [a \in AllAddrs |-> 0]
        /\ loop_exc = ""
        /\ codec = NoCall

SpecFew == InitFew /\ [][Next]_vars

---------------------------------------------------------------------------
(***************************************************************************)
(* The codec called on its own: a head is parsed as _read_request and      *)
(* _read_response parse it (the bytes before the delimiter), and the       *)
(* result, or a line and a dict made elsewhere, is reconstructed with a    *)
(* body.                                                                   *)
(***************************************************************************)
MaxHeaders == 2

\* first lines: three tokens, two, three with runs of white space, four,
\* and three with a byte that is not UTF-8
FirstLines ==
    {<<"G", "SP", "/", "SP", "H">>,
     <<"G", "SP", "/">>,
     <<"G", "TAB", "/", "SP", "SP", "H">>,
     <<"G", "SP", "/", "SP", "H", "SP", "H">>,
     <<"G", "SP", "/", "SP", "xFF">>}

\* header lines: well-formed ones (two with the same name, one with the
\* name in the other case, one with an empty value), one without the
\* separator, one whose value holds the separator, one that is not UTF-8
HeaderLines ==
    {<<"k", ":", "SP", "v">>,
     <<"k", ":", "SP", "w">>,
     <<"K", ":", "SP", "v">>,
     <<"c", ":", "SP">>,
     <<"k", ":", "v">>,
     <<"k", ":", "SP", "v", ":", "SP", "w">>,
     <<"c", ":", "SP", "xFF">>}

Bodies == {<<>>, <<"b">>, <<"b", "CR", "LF", "CR", "LF", "b">>}

\* lines joined by \r\n
RECURSIVE JoinLines(_)
JoinLines(lines) ==
    IF Len(lines) = 1 THEN lines[1]
    ELSE lines[1] \o CRLF \o JoinLines(Tail(lines))

\* the heads a peer sends: a first line, header lines, the delimiter
Heads ==
    {JoinLines(<<l>> \o hs) \o HEADER_DELIMITER :
        l \in FirstLines,
        hs \in UNION {[1..n -> HeaderLines] : n \in 0..MaxHeaders}}

\* the dicts of decoded headers handed to the reconstructors
HeaderDicts ==
    {<<>>,
     <<<<<<"k">>, <<"v">>>>>>,
     <<<<<<"k">>, <<"v", ":", "SP", "w">>>>, <<<<"c">>, <<>>>>>>,
     <<<<<<"c">>, <<"v">>>>, <<<<"K">>, <<"w">>>>, <<<<"k">>, <<"v">>>>>>}

CodecCall(op, head, line, headers, body, exc, out) ==
    [op |-> op, head |-> head, line |-> line, headers |-> headers,
     body |-> body, exc |-> exc, out |-> out, accept |-> None,
     method |-> None, path |-> None]

\* the lowered Accept-Encoding values of requests (None: no such header)
AcceptEncodings ==
    {None, <<"gzip">>, <<"br", ",", "SP", "gzip">>, <<"identity">>}

\* the header lines of backends: the length of the body under three
\* spellings of the name, an encoding, another header
BackendHeaderLines(body) ==
    {<<"Content-Length", ":", "SP">> \o str(Len(body)),
     <<"content-length", ":", "SP">> \o str(Len(body)),
     <<"CONTENT-LENGTH", ":", "SP">> \o str(Len(body)),
     <<"Content-Encoding", ":", "SP", "br">>,
     <<"k", ":", "SP", "v">>}

\* the heads backends send before a body
BackendHeads(body) ==
    {JoinLines(<<<<"H", "SP", "2", "SP", "O">>>> \o hs) \o HEADER_DELIMITER :
        hs \in UNION {[1..n -> BackendHeaderLines(body)] :
                         n \in 0..MaxHeaders}}

\* _read_response on a response that arrived whole: parse, negotiate gzip,
\* reconstruct
CodecReadResponse ==
    /\ codec.op = "response"
    /\ LET r == parse_response(partition(codec.head, HEADER_DELIMITER)[1])
       IN  codec' = [codec EXCEPT
                        !.op = "read_response",
                        !.line = r.line,
                        !.headers = r.headers,
                        !.exc = r.exc,
                        !.out = IF r.exc # "" THEN <<>>
                                ELSE encode_response(codec.accept, r.line,
                                                     r.headers, codec.body)]
    /\ UNCHANGED <<lbVars, cacheVars, now, poolVars, ctxVars>>

\* parse_request(request_head_raw) as _read_request calls it
CodecParseRequest ==
    /\ codec.op = "head"
    /\ LET r == parse_request(partition(codec.head, HEADER_DELIMITER)[1])
       IN  codec' = CodecCall("parse_request", codec.head, r.line, r.headers,
                              codec.body, r.exc, <<>>)
    /\ UNCHANGED <<lbVars, cacheVars, now, poolVars, ctxVars>>

\* parse_response(response_head_raw) as _read_response calls it
CodecParseResponse ==
    /\ codec.op = "head"
    /\ LET r == parse_response(partition(codec.head, HEADER_DELIMITER)[1])
       IN  codec' = CodecCall("parse_response", codec.head, r.line,
                              r.headers, codec.body, r.exc, <<>>)
    /\ UNCHANGED <<lbVars, cacheVars, now, poolVars, ctxVars>>

CodecReconstructRequest ==
    /\ \/ codec.op = "parse_request" /\ codec.exc = ""
       \/ codec.op = "dict"
    /\ codec' = [codec EXCEPT
                    !.op = "reconstruct_request",
                    !.out = reconstruct_request(codec.line, codec.headers,
                                                codec.body)]
    /\ UNCHANGED <<lbVars, cacheVars, now, poolVars, ctxVars>>

CodecReconstructResponse ==
    /\ \/ codec.op = "parse_response" /\ codec.exc = ""
       \/ codec.op = "dict"
    /\ codec' = [codec EXCEPT
                    !.op = "reconstruct_response",
                    !.out = reconstruct_response(codec.line, codec.headers,
                                                 codec.body)]
    /\ UNCHANGED <<lbVars, cacheVars, now, poolVars, ctxVars>>

\* the header lines of clients: the Connection header under three
\* spellings, a forged X-Forwarded-For, another header
ClientHeaderLines ==
    {<<"Connection", ":", "SP", "Keep-Alive">>,
     <<"connection", ":", "SP", "close">>,
     <<"CONNECTION", ":", "SP", "close">>,
     <<"X-Forwarded-For", ":", "SP", "6.6.6.6">>,
     <<"k", ":", "SP", "v">>}

\* the heads clients send before a body
ClientHeads ==
    {JoinLines(<<<<"G", "SP", "/", "SP", "H">>>> \o hs) \o HEADER_DELIMITER :
        hs \in UNION {[1..n -> ClientHeaderLines] : n \in 0..MaxHeaders}}

\* client_addr[0] of the contexts
ClientIp == <<"::1">>

\* _read_request on a request that arrived whole and is not in the cache:
\* parse, strip, add the forwarding headers, reconstruct
CodecReadRequest ==
    /\ codec.op = "request"
    /\ LET r == rewrite_request(ClientIp,
                                partition(codec.head, HEADER_DELIMITER)[1],
                                codec.body)
       IN  codec' = [codec EXCEPT !.op = "read_request",
                                  !.line = r.line,
                                  !.headers = r.headers,
                                  !.exc = r.exc,
                                  !.out = r.out]
    /\ UNCHANGED <<lbVars, cacheVars, now, poolVars, ctxVars>>

\* the Cache-Control values of backends: max-age bare, quoted, in the
\* second place, in capitals, zero, absent, cut short, inside another word
CacheControlValues ==
    {<<"max-age", "=", "6", "0">>,
     <<"must-revalidate", ",", "SP", "max-age", "=", "DQ", "5", "DQ">>,
     <<"Max-Age", "=", "7">>,
     <<"max-age", ",", "SP", "max-age", "=", "3">>,
     <<"max-age", "=", "0">>,
     <<"max-age", "=", "DQ", "0", "DQ">>,
     <<"must-revalidate">>,
     <<"SP">>,
     <<"max-age", "=", "DQ">>,
     <<"s-maxage", "=", "9">>,
     <<"s", "max-age", "=", "5">>}

\* the header lines that carry them, under two spellings of the name
CacheControlLines ==
    {<<n, ":", "SP">> \o v :
        n \in {"Cache-Control", "cache-control"}, v \in CacheControlValues}

\* the heads of backends that may ask for caching: the length of the body,
\* at most one Cache-Control, at most one Content-Encoding
CachingHeads(body) ==
    {JoinLines(<<<<"H", "SP", "2", "SP", "O">>,
                 <<"Content-Length", ":", "SP">> \o str(Len(body))>>
               \o cc \o ce) \o HEADER_DELIMITER :
        cc \in {<<>>} \cup {<<l>> : l \in CacheControlLines},
        ce \in {<<>>, <<<<"Content-Encoding", ":", "SP", "br">>>>}}

\* the times of the clock at which a response is cached
CacheTimes == {0, 1}

\* _read_response on a response that arrived whole, up to the change of
\* state: parse, negotiate gzip, reconstruct, cache
CodecCacheResponse ==
    /\ codec.op = "cacheable"
    /\ LET r == parse_response(partition(codec.head, HEADER_DELIMITER)[1])
           response_buffer == encode_response(codec.accept, r.line,
                                              r.headers, codec.body)
       IN  /\ codec' = [codec EXCEPT
                           !.op = "cache_response",
                           !.line = r.line,
                           !.headers = r.headers,
                           !.exc = r.exc,
                           !.out = IF r.exc # "" THEN <<>>
                                   ELSE response_buffer]
           /\ CACHE' = IF r.exc # "" THEN CACHE
                       ELSE cache_response(CACHE, now, codec.method,
                                           codec.path, r.headers,
                                           response_buffer)
    /\ UNCHANGED <<lbVars, cache_ret, now, poolVars, ctxVars>>

InitCodec ==
    /\ \/ \E h \in Heads, b \in Bodies :
             codec = CodecCall("head", h, <<>>, <<>>, b, "", <<>>)
       \/ \E l \in FirstLines, d \in HeaderDicts, b \in Bodies :
             /\ decode(l).exc = ""
             /\ codec = CodecCall("dict", <<>>, l, d, b, "", <<>>)
       \/ \E b \in Bodies, a \in AcceptEncodings :
             \E h \in BackendHeads(b) :
                codec = [CodecCall("response", h, <<>>, <<>>, b, "", <<>>)
                            EXCEPT !.accept = a]
       \/ \E h \in ClientHeads, b \in Bodies :
             codec = CodecCall("request", h, <<>>, <<>>, b, "", <<>>)
       \/ \E b \in Bodies, a \in AcceptEncodings, k \in CacheKeys :
             \E h \in CachingHeads(b) :
                codec = [CodecCall("cacheable", h, <<>>, <<>>, b, "", <<>>)
                            EXCEPT !.accept = a,
                                   !.method = k[1],
                                   !.path = k[2]]
    /\ LOAD_BALANCER = LoadBalancerInit("LEAST_CONNECTIONS")
    /\ lb_ret = NoCall
    /\ CACHE = CacheInit
    /\ cache_ret = NoCall
    /\ now \in IF codec.op = "cacheable" THEN CacheTimes ELSE {0}
    /\ POOL = PoolInit
    /\ socks = [s \in Socks |-> "unused"]
    /\ pool_ret = NoCall
    /\ ctx = [c \in Contexts |-> NoContext]
    /\ FAILED_SERVERS = [a \in AllAddrs |-> 0]
    /\ loop_exc = ""

NextCodec ==
    \/ CodecParseRequest
    \/ CodecParseResponse
    \/ CodecReconstructRequest
    \/ CodecReconstructResponse
    \/ CodecReadResponse
    \/ CodecReadRequest
    \/ CodecCacheResponse

SpecCodec == InitCodec /\ [][NextCodec]_vars

---------------------------------------------------------------------------
(***************************************************************************)
(* Properties.                                                             *)
(***************************************************************************)
\* every context that was accepted has been closed
AllClosed == \A c \in Contexts : ctx[c].client_sock = "closed"

\* C1: release balance: once every context has been closed, the active
\* count of every address still in the registry is 0 (every increment made
\* by backend initiation has been matched by one decrement).
ReleaseBalance ==
    AllClosed =>
        \A i \in 1..Len(LOAD_BALANCER.servers_dict) :
            LOAD_BALANCER.servers_dict[i][2] = 0

\* the edges of the transition table, and the creation of a context
TableEdges ==
    {<<"NONE", "TLS_HANDSHAKE">>,
     <<"TLS_HANDSHAKE", "READ_REQUEST">>,
     <<"READ_REQUEST", "CONNECT_BACKEND">>,
     <<"READ_REQUEST", "WRITE_BACKEND">>,
     <<"READ_REQUEST", "WRITE_CLIENT">>,
     <<"CONNECT_BACKEND", "WRITE_BACKEND">>,
     <<"CONNECT_BACKEND", "WRITE_CLIENT">>,
     <<"WRITE_BACKEND", "READ_BACKEND">>,
     <<"READ_BACKEND", "WRITE_CLIENT">>,
     <<"WRITE_CLIENT", "READ_REQUEST">>,
     <<"WRITE_CLIENT", "CLEANUP">>}

\* C2: the state of a context only changes along the edges of the
\* transition table, and once it is CLEANUP it never changes again (no edge
\* leaves CLEANUP).
TransitionsFollowTable ==
    [][\A c \in Contexts :
          ctx'[c].state # ctx[c].state =>
              <<ctx[c].state, ctx'[c].state>> \in TableEdges]_vars

\* a context went round the keep-alive loop and ended in CLEANUP
TransitionsFollowTableWitness ==
    \E c \in Contexts :
        /\ ctx[c].state = "CLEANUP"
        /\ ctx[c].requests = 2
        /\ ctx[c].responses = 2

\* C3: error confinement: whatever a handler's I/O or lookup does,
\* process_events returns normally; no exception reaches main's loop.
ErrorConfinement == loop_exc = ""

\* C4: bounded retry: one request makes at most MAX_RETRIES + 1 backend
\* connect attempts; a failed confirmation starts another attempt only while
\* retries < MAX_RETRIES; a connect that fails with retries = MAX_RETRIES
\* buffers the 502 and moves the context to WRITE_CLIENT.
BoundedRetry ==
    [][\A c \in Contexts :
          LET s == ctx[c]
              t == ctx'[c]
          IN  /\ t.attempts <= MAX_RETRIES + 1
              /\ (s.state = "CONNECT_BACKEND" /\ t.attempts > s.attempts)
                     => s.retries < MAX_RETRIES
              /\ (/\ s.state = "CONNECT_BACKEND"
                  /\ s.retries = MAX_RETRIES
                  /\ t # s
                  /\ t.state # "WRITE_BACKEND"
                  /\ t.client_sock = "open")
                     => /\ t.state = "WRITE_CLIENT"
                        /\ t.response_buffer = ErrorResponse(502)
                        /\ t.attempts = s.attempts]_vars

\* the last allowed attempt failed and the 502 is buffered
BoundedRetryWitness ==
    \E c \in Contexts :
        /\ ctx[c].attempts = MAX_RETRIES + 1
        /\ ctx[c].retries = MAX_RETRIES
        /\ ctx[c].state = "WRITE_CLIENT"
        /\ ctx[c].response_buffer = ErrorResponse(502)

\* C5: retry to exhaustion: with two registered backends that both refuse,
\* MAX_RETRIES = 2 and FAILURE_THRESHOLD = 1, a request that ends with the
\* 502 written to the client leaves both addresses removed from the load
\* balancer.
RetryToExhaustion ==
    \A c \in Contexts :
        (ctx[c].requests = 1 /\ ctx[c].to_client = ErrorResponse(502))
            => LOAD_BALANCER.servers_list = <<>>

\* the heads of well-formed requests that are not POST
CacheableHeads ==
    {h \in RequestHeads : h.ok /\ h.cl # -1 /\ Lower(h.method) # "post"}

\* C6: cache hit short-circuit: when the head of a well-formed non-POST
\* request arrives and its (method, path) has an unexpired cache entry, the
\* context buffers exactly the cached bytes and goes from READ_REQUEST to
\* WRITE_CLIENT; the load balancer (its registry, counts and round-robin
\* index), the backend socket and what was written to it are as before; and
\* a request served from the cache has made no backend attempt.
CacheHitShortCircuit ==
    \A c \in Contexts :
        /\ ctx[c].hit =>
               /\ ctx[c].attempts = 0
               /\ ctx[c].to_backend = <<>>
               /\ Lower(ctx[c].method) # "post"
        /\ (/\ ctx[c].state = "READ_REQUEST"
            /\ ctx[c].client_sock = "open"
            /\ ~HasDelimiter(ctx[c].request_buffer))
               => \A h \in CacheableHeads, d \in {<<>>, <<Body>>} :
                     LET e == CACHE[<<h.method, h.path>>]
                         in == [NoInput EXCEPT !.outcome = "data",
                                               !.data = <<h>> \o d]
                         w == process_events(World(c), now, "R", in)
                     IN  (e # <<>> /\ now < e[2])
                            => /\ w.exc = ""
                               /\ w.self.state = "WRITE_CLIENT"
                               /\ w.self.response_buffer = e[1]
                               /\ w.self.client_reg = "W"
                               /\ w.lb = LOAD_BALANCER
                               /\ w.cache = CACHE
                               /\ w.self.backend_sock = ctx[c].backend_sock
                               /\ w.self.backend_addr = ctx[c].backend_addr
                               /\ w.self.to_backend = ctx[c].to_backend
                               /\ w.self.attempts = ctx[c].attempts

\* the second request of a connection was answered from the cache, all of
\* the cached bytes reached the client, and no backend was contacted for it
CacheHitShortCircuitWitness ==
    \E c \in Contexts :
        /\ ctx[c].hit
        /\ ctx[c].requests = 2
        /\ ctx[c].state = "CLEANUP"
        /\ ctx[c].responses = 2
        /\ ctx[c].to_client # <<>>
        /\ ctx[c].to_backend = <<>>

\* C7: POST is never a cache hit: whatever has been put (a put under POST
\* included), get_message with the method POST, in either case of letters,
\* returns empty for every path.
PostNeverHit ==
    /\ \A m \in {x \in Methods : Lower(x) = "post"}, p \in Paths :
           get_message(CACHE, now, m, p).message = <<>>
    /\ (cache_ret.op = "get_message" /\ Lower(cache_ret.key[1]) = "post")
           => cache_ret.message = <<>>

\* a get under POST found an unexpired entry put under POST and missed
PostNeverHitWitness ==
    /\ cache_ret.op = "get_message"
    /\ cache_ret.key[1] = "POST"
    /\ cache_ret.entry # <<>>
    /\ cache_ret.at < cache_ret.entry[2]
    /\ cache_ret.message = <<>>

\* what every call of the cache leaves, whatever the key: a put stores the
\* bytes with expiry put-time + max_age; a get returns bytes only if they are
\* the stored ones and now < expiry
FreshnessCommon ==
    /\ cache_ret.op = "add_message" =>
           CACHE[cache_ret.key] =
               <<cache_ret.message, cache_ret.at + cache_ret.max_age>>
    /\ (cache_ret.op = "get_message" /\ cache_ret.message # <<>>) =>
           /\ cache_ret.entry # <<>>
           /\ cache_ret.message = cache_ret.entry[1]
           /\ cache_ret.at < cache_ret.entry[2]
           /\ CACHE[cache_ret.key] = cache_ret.entry

\* the last call was a get that found an entry at or past its expiry
ExpiredLookup ==
    /\ cache_ret.op = "get_message"
    /\ cache_ret.entry # <<>>
    /\ cache_ret.at >= cache_ret.entry[2]

\* C8 as stated: cache freshness for every key: a get returns the stored
\* bytes only while now < expiry; a get at or past expiry returns empty and
\* erases the entry, so a later lookup also misses.
CacheFreshnessEveryKey ==
    /\ FreshnessCommon
    /\ ExpiredLookup =>
           /\ cache_ret.message = <<>>
           /\ CACHE[cache_ret.key] = <<>>

\* C8: cache freshness: a get returns the stored bytes only while
\* now < expiry; a get at or past expiry returns empty; under a method other
\* than POST it also erases the entry, so that a later lookup misses, and
\* under POST it leaves the entry in place (and every later lookup under
\* POST misses all the same).
CacheFreshness ==
    /\ FreshnessCommon
    /\ ExpiredLookup =>
           /\ cache_ret.message = <<>>
           /\ Lower(cache_ret.key[1]) # "post" =>
                  /\ CACHE[cache_ret.key] = <<>>
                  /\ get_message(CACHE, now, cache_ret.key[1],
                                 cache_ret.key[2]).message = <<>>
           /\ Lower(cache_ret.key[1]) = "post" =>
                  /\ CACHE[cache_ret.key] = cache_ret.entry
                  /\ get_message(CACHE, now, cache_ret.key[1],
                                 cache_ret.key[2]).message = <<>>

\* a get under GET exactly at the expiry of the entry missed and erased it
CacheFreshnessWitness ==
    /\ ExpiredLookup
    /\ cache_ret.key[1] = "GET"
    /\ cache_ret.at = cache_ret.entry[2]
    /\ cache_ret.message = <<>>
    /\ CACHE[cache_ret.key] = <<>>

\* C9: counter non-negativity: after any sequence of increment, decrement,
\* add_server and remove_server, every active-connection count of the
\* registry is >= 0, and a decrement on a count of 0 leaves it at 0.
CounterNonNegative ==
    /\ \A i \in 1..Len(LOAD_BALANCER.servers_dict) :
           LOAD_BALANCER.servers_dict[i][2] >= 0
    /\ (lb_ret.op = "decrement" /\ lb_ret.before = 0) =>
           ActiveCount(LOAD_BALANCER, lb_ret.server) = 0

\* a registered address whose count was 0 was decremented and is still at 0
CounterNonNegativeWitness ==
    /\ lb_ret.op = "decrement"
    /\ lb_ret.before = 0
    /\ DictHas(LOAD_BALANCER.servers_dict, lb_ret.server)
    /\ DictGet(LOAD_BALANCER.servers_dict, lb_ret.server) = 0

\* C10: pool size bound: after any sequence of get_connection,
\* release_connection and cleanup, the queue of every backend address holds
\* at most POOL_MAXSIZE sockets.
PoolSizeBound ==
    \A a \in AllAddrs :
        a \in DOMAIN POOL => Len(POOL[a]) <= POOL_MAXSIZE

\* more sockets than a queue may hold have been handed out and released
PoolSizeBoundWitness ==
    /\ pool_ret.op = "release_connection"
    /\ Cardinality({s \in Socks : socks[s] \in {"pooled", "closed"}})
           > POOL_MAXSIZE

\* C11: pool release: for every backend address, one never pooled before
\* included, release_connection on a queue shorter than POOL_MAXSIZE appends
\* the socket with the time of the release, and closes it only when the
\* queue is full.
PoolReleaseKeeps ==
    (pool_ret.op = "release_connection" /\ pool_ret.before < POOL_MAXSIZE)
        => /\ socks[pool_ret.sock] = "pooled"
           /\ pool_ret.addr \in DOMAIN POOL
           /\ POOL[pool_ret.addr] # <<>>
           /\ POOL[pool_ret.addr][Len(POOL[pool_ret.addr])] =
                  <<pool_ret.sock, now>>

\* how often x occurs in the sequence q
Occurrences(q, x) == Cardinality({i \in 1..Len(q) : q[i] = x})

\* C12: round-robin fairness: under ROUND_ROBIN, with the registry fixed at
\* N >= 1 servers, k * N successive get_server calls, from whatever value
\* the counter has, return every server exactly k times: call i returns
\* servers_list[counter mod N] and advances the counter by one.
RoundRobinFair ==
    LET lb == LOAD_BALANCER
        N == Len(lb.servers_list)
    IN  (lb.algorithm = "ROUND_ROBIN" /\ N >= 1) =>
            \A k \in 1..MaxRounds, ip \in ClientIps :
                LET r == Serve(lb, ip, k * N)
                IN  /\ \A i \in 1..N :
                          Occurrences(r.servers, lb.servers_list[i]) = k
                    /\ \A i \in 1..(k * N) :
                          r.servers[i] =
                              lb.servers_list[
                                  ((lb.ROUND_ROBIN_COUNTER + i - 1) % N) + 1]
                    /\ r.lb.ROUND_ROBIN_COUNTER =
                          lb.ROUND_ROBIN_COUNTER + k * N
                    /\ r.lb.servers_list = lb.servers_list

\* calls have been made under ROUND_ROBIN, the last of them on a registry of
\* three servers with the counter in the middle of a round
RoundRobinFairWitness ==
    /\ LOAD_BALANCER.algorithm = "ROUND_ROBIN"
    /\ lb_ret.op = "get_server"
    /\ lb_ret.exc = ""
    /\ Len(LOAD_BALANCER.servers_list) = 3
    /\ LOAD_BALANCER.ROUND_ROBIN_COUNTER % 3 = 2

\* C13: keep-alive reuse: when a response has been fully written and
\* keep-alive is true the context goes from WRITE_CLIENT to READ_REQUEST (and
\* it goes there in no other case) with the client socket open and armed for
\* reading, both buffers empty, both header-parsed flags false and the retry
\* counter 0, and with the backend socket, its registration and the backend
\* address as they were.
KeepAliveReuse ==
    [][\A c \in Contexts :
          LET s == ctx[c]
              t == ctx'[c]
          IN  /\ (/\ s.state = "WRITE_CLIENT"
                  /\ s.keepalive = "true"
                  /\ t.responses = s.responses + 1)
                     => t.state = "READ_REQUEST"
              /\ (s.state = "WRITE_CLIENT" /\ t.state = "READ_REQUEST")
                     => /\ s.keepalive = "true"
                        /\ t.responses = s.responses + 1
                        /\ t.client_sock = "open"
                        /\ t.client_reg = "R"
                        /\ t.request_buffer = <<>>
                        /\ t.response_buffer = <<>>
                        /\ ~t.request_header_parsed
                        /\ ~t.response_header_parsed
                        /\ t.retries = 0
                        /\ t.backend_sock = s.backend_sock
                        /\ t.backend_reg = s.backend_reg
                        /\ t.backend_addr = s.backend_addr]_vars

\* the second request of a connection went out on the backend socket of the
\* first, and its response has been written to the client
KeepAliveReuseWitness ==
    \E c \in Contexts :
        /\ ctx[c].requests = 2
        /\ ctx[c].responses = 2
        /\ ctx[c].state = "CLEANUP"
        /\ ctx[c].attempts = 0
        /\ ~ctx[c].hit
        /\ ctx[c].to_backend # <<>>
        /\ ctx[c].to_client # <<>>
        /\ ctx[c].to_client[1].kind = "head"

\* C14: head too large: a context in READ_REQUEST that has not seen the end
\* of the head never holds more than MAX_HEAD_SIZE bytes of it (past that
\* size it would have buffered the 431 and moved to WRITE_CLIENT).
HeadTooLarge ==
    \A c \in Contexts :
        (ctx[c].state = "READ_REQUEST" /\ ~HasDelimiter(ctx[c].request_buffer))
            => Len(ctx[c].request_buffer) * RecvSize <= MAX_HEAD_SIZE

\* the heads of well-formed requests
GoodHeads == {h \in RequestHeads : h.ok /\ h.cl = 0}

\* what backend initiation has to leave when it finds the registry empty:
\* process_events returned, the 503 is buffered, the context is in
\* WRITE_CLIENT with no backend socket, and no count was incremented
Answered503(w) ==
    /\ w.exc = ""
    /\ w.self.state = "WRITE_CLIENT"
    /\ w.self.response_buffer = ErrorResponse(503)
    /\ w.self.backend_sock = None
    /\ w.lb.servers_dict = <<>>

\* C15: no backend: under each of the four policies, when the registry is
\* empty at backend initiation, on the first attempt of a request or on the
\* retry that follows the eviction of the last address, the context buffers
\* the 503 and moves to WRITE_CLIENT without incrementing a count and
\* without opening a backend socket.
NoBackend503 ==
    \A c \in Contexts :
        /\ (/\ ctx[c].state = "READ_REQUEST"
            /\ ctx[c].client_sock = "open"
            /\ ctx[c].backend_sock = None
            /\ ~HasDelimiter(ctx[c].request_buffer)
            /\ LOAD_BALANCER.servers_list = <<>>)
               => \A h \in GoodHeads :
                     LET in == [NoInput EXCEPT !.outcome = "data",
                                               !.data = <<h>>]
                         w == process_events(World(c), now, "R", in)
                     IN  get_message(CACHE, now, h.method, h.path).message
                             = <<>>
                         => Answered503(w)
        /\ (/\ ctx[c].state = "CONNECT_BACKEND"
            /\ ctx[c].retries < MAX_RETRIES
            /\ LOAD_BALANCER.servers_list = <<ctx[c].backend_addr>>
            /\ FAILED_SERVERS[ctx[c].backend_addr] = FAILURE_THRESHOLD)
               => Answered503(process_events(World(c), now, "W",
                                             [NoInput EXCEPT !.err = 111]))

\* the number of responses that begin in a sequence of bytes: each begins
\* with a response head or is one of the proxy's own error replies
Starts(bytes) ==
    Cardinality({i \in 1..Len(bytes) : bytes[i].kind \in {"head", "error"}})

\* C16: at-most-once response delivery: for each request at most one
\* response is written to the client.  Of the bytes written to the client
\* socket or buffered for it since the last request was completed at most
\* one response begins, and the responses completed or begun never outnumber
\* the request heads received, also after connect retries, when a cache hit
\* answers a request whose body has yet to arrive, and over several requests
\* of one connection.
AtMostOnceResponse ==
    \A c \in Contexts :
        LET begun == Starts(ctx[c].to_client \o ctx[c].response_buffer)
        IN  /\ begun <= 1
            /\ ctx[c].responses <= ctx[c].requests
            /\ ctx[c].client_sock = "open"
                   => ctx[c].responses + begun <= ctx[c].requests

\* the second request of a kept-alive connection, whose first request was
\* forwarded after a failed connect: its head announced a body that has not
\* arrived, the cache answered it, and a part of that answer is written
AtMostOnceResponseWitness ==
    \E c \in Contexts :
        /\ ctx[c].state = "WRITE_CLIENT"
        /\ ctx[c].hit
        /\ ctx[c].requests = 2
        /\ ctx[c].responses = 1
        /\ ctx[c].request_content_length = 1
        /\ Len(ctx[c].request_buffer) = 1
        /\ ctx[c].to_client # <<>>
        /\ ctx[c].response_buffer # <<>>
        /\ \E a \in AllAddrs : FAILED_SERVERS[a] > 0

\* the lines of a head: what precedes the delimiter, cut at every \r\n
LinesOf(head) == split(partition(head, HEADER_DELIMITER)[1], CRLF)

\* a header line cut at its first ": "
KeyOf(l) == SubSeq(l, 1, Find(l, ColonSpace) - 1)
ValueOf(l) == SubSeq(l, Find(l, ColonSpace) + 2, Len(l))

\* every line after the first holds the separator
HeadersWellFormed(head) ==
    \A i \in 2..Len(LinesOf(head)) : Find(LinesOf(head)[i], ColonSpace) # 0

\* the first line has exactly three tokens and the header lines are
\* well-formed
RequestWellFormed(head) ==
    /\ Len(split_whitespace(LinesOf(head)[1])) = 3
    /\ HeadersWellFormed(head)

NoDuplicateNames(head) ==
    \A i, j \in 2..Len(LinesOf(head)) :
        (i # j /\ Find(LinesOf(head)[i], ColonSpace) # 0
               /\ Find(LinesOf(head)[j], ColonSpace) # 0)
            => KeyOf(LinesOf(head)[i]) # KeyOf(LinesOf(head)[j])

\* the head is UTF-8 text
IsText(head) == decode(head).exc = ""

\* C17: head parser round-trip: for every head of text that ends with
\* \r\n\r\n, is well-formed and has no duplicate header names, and every
\* body, the head parses and reconstructing the parse result with the body
\* gives the head followed by the body, for the request codec and for the
\* response codec.
HeadRoundTrip ==
    /\ (codec.op = "parse_request" /\ IsText(codec.head)
           /\ RequestWellFormed(codec.head)
           /\ NoDuplicateNames(codec.head))
          => /\ codec.exc = ""
             /\ reconstruct_request(codec.line, codec.headers, codec.body)
                   = codec.head \o codec.body
    /\ (codec.op = "parse_response" /\ IsText(codec.head)
           /\ HeadersWellFormed(codec.head)
           /\ NoDuplicateNames(codec.head))
          => /\ codec.exc = ""
             /\ reconstruct_response(codec.line, codec.headers, codec.body)
                   = codec.head \o codec.body

\* the dict the header lines stand for when each is cut at its first ": "
\* and the last of duplicate keys wins
RECURSIVE HeadersOf(_, _)
HeadersOf(lines, d) ==
    IF lines = <<>> THEN d
    ELSE HeadersOf(Tail(lines), DictSet(d, KeyOf(lines[1]), ValueOf(lines[1])))

\* C18: on a head of text parse_request succeeds exactly when the first
\* line has exactly three whitespace-separated tokens and every later line
\* holds ": "; it cuts each header line at the first ": " (a value that holds ": " is accepted) and
\* returns the request line and the headers with their original-case keys,
\* the last of duplicate keys winning; otherwise it fails.
ParseRequestAccepts ==
    (codec.op = "parse_request" /\ IsText(codec.head))
        => /\ codec.exc = "" <=> RequestWellFormed(codec.head)
           /\ codec.exc = ""
                 => /\ codec.line = LinesOf(codec.head)[1]
                    /\ codec.headers
                          = HeadersOf(Tail(LinesOf(codec.head)), <<>>)

\* out holds, from place pos on, one "key: value\r\n" per header in the
\* order of the dict, then \r\n, then the body and nothing else
RECURSIVE EmitsFrom(_, _, _, _)
EmitsFrom(out, pos, headers, body) ==
    IF headers = <<>>
    THEN /\ SubSeq(out, pos, pos + 1) = CRLF
         /\ SubSeq(out, pos + 2, Len(out)) = body
         /\ Len(out) = pos + 1 + Len(body)
    ELSE LET k == headers[1][1]
             v == headers[1][2]
             n == Len(k) + Len(v) + 4
         IN  /\ SubSeq(out, pos, pos + Len(k) - 1) = k
             /\ SubSeq(out, pos + Len(k), pos + Len(k) + 1) = ColonSpace
             /\ SubSeq(out, pos + Len(k) + 2, pos + n - 3) = v
             /\ SubSeq(out, pos + n - 2, pos + n - 1) = CRLF
             /\ EmitsFrom(out, pos + n, Tail(headers), body)

\* C19: reconstruct_request and reconstruct_response emit the line followed
\* by \r\n, then one "key: value\r\n" per header in the insertion order of
\* the dict, then an empty line, then the body bytes unchanged, and nothing
\* after the empty line when the body is empty.
ReconstructEmits ==
    codec.op \in {"reconstruct_request", "reconstruct_response"}
        => /\ SubSeq(codec.out, 1, Len(codec.line)) = codec.line
           /\ SubSeq(codec.out, Len(codec.line) + 1, Len(codec.line) + 2)
                 = CRLF
           /\ EmitsFrom(codec.out, Len(codec.line) + 3, codec.headers,
                        codec.body)

\* a request was reconstructed from three headers and a body that itself
\* holds the delimiter
ReconstructEmitsWitness ==
    /\ codec.op = "reconstruct_request"
    /\ Len(codec.headers) = 3
    /\ Find(codec.body, HEADER_DELIMITER) # 0

\* the headers of the bytes written for the client whose name is, in any
\* letter case, the given one
HeadersNamed(bytes, name) ==
    LET lines == LinesOf(bytes)
    IN  {i \in 2..Len(lines) : lower(KeyOf(lines[i])) = <<name>>}

\* the backend response has no Content-Encoding and the request advertised
\* gzip
GzipCase ==
    /\ codec.op = "read_response"
    /\ codec.exc = ""
    /\ codec.accept # None
    /\ \E i \in 1..Len(codec.accept) : codec.accept[i] = "gzip"
    /\ HeadersNamed(codec.head, "content-encoding") = {}

\* C20: gzip negotiation: for a backend response without Content-Encoding,
\* answered to a request that advertised gzip, the reply carries
\* Content-Encoding: gzip, its body is the gzip encoding of the backend body,
\* and its head declares a single Content-Length, the length of the
\* compressed body, whatever letter case the backend used for that name.
GzipNegotiation ==
    GzipCase =>
        LET lines == LinesOf(codec.out)
            reply_body == partition(codec.out, HEADER_DELIMITER)[3]
        IN  /\ \E i \in 2..Len(lines) :
                  lines[i] = <<"Content-Encoding", ":", "SP", "gzip">>
            /\ reply_body = gzip_compress(codec.body)
            /\ Cardinality(HeadersNamed(codec.out, "content-length")) = 1
            /\ \A i \in HeadersNamed(codec.out, "content-length") :
                  ValueOf(lines[i]) = str(Len(reply_body))

\* the header lines of a head, without the first line
HeaderLinesOf(bytes) == Tail(LinesOf(bytes))

\* the names of the headers the proxy strips or sets itself
ProxyHeaderNames == {<<"connection">>, <<"x-forwarded-for">>,
                     <<"x-forwarded-proto">>}

\* the header lines that are the client's own
RECURSIVE OtherHeaders(_)
OtherHeaders(lines) ==
    IF lines = <<>> THEN <<>>
    ELSE IF lower(KeyOf(lines[1])) \in ProxyHeaderNames
         THEN OtherHeaders(Tail(lines))
         ELSE <<lines[1]>> \o OtherHeaders(Tail(lines))

\* C21: hop-by-hop stripping: the bytes forwarded for a parsed request hold
\* no Connection header in any letter case, also when the client sent it
\* under two spellings; their header block ends with X-Forwarded-For set to
\* the client IP and X-Forwarded-Proto set to https; the request line, the
\* other headers and the body are forwarded unchanged and in order.
HopByHopStripped ==
    (codec.op = "read_request" /\ codec.exc = ""
        /\ NoDuplicateNames(codec.head))
        => LET sent == HeaderLinesOf(codec.out)
               n == Len(sent)
           IN  /\ HeadersNamed(codec.out, "connection") = {}
               /\ n >= 2
               /\ sent[n - 1] = <<"X-Forwarded-For", ":", "SP">> \o ClientIp
               /\ sent[n] = <<"X-Forwarded-Proto", ":", "SP", "https">>
               /\ OtherHeaders(sent) = OtherHeaders(HeaderLinesOf(codec.head))
               /\ LinesOf(codec.out)[1] = LinesOf(codec.head)[1]
               /\ partition(codec.out, HEADER_DELIMITER)[3] = codec.body

\* C22: failure eviction at threshold: an address is removed and its counter
\* cleared as soon as its failure counter reaches FAILURE_THRESHOLD, so in
\* every reachable state every failure counter is strictly below
\* FAILURE_THRESHOLD.
FailuresBelowThreshold ==
    \A a \in AllAddrs : FAILED_SERVERS[a] < FAILURE_THRESHOLD

\* C23: the failure counter counts consecutive failures: a successful
\* connect confirmation to an address leaves the failure counter of that
\* address at zero.
SuccessResetsFailures ==
    [][\A c \in Contexts :
          (ctx[c].state = "CONNECT_BACKEND"
              /\ ctx'[c].state = "WRITE_BACKEND")
             => FAILED_SERVERS'[ctx'[c].backend_addr] = 0]_vars

\* what a failed backend response has to leave: process_events returned,
\* the 502 is buffered and the context is in WRITE_CLIENT
Answered502(w) ==
    /\ w.exc = ""
    /\ w.self.state = "WRITE_CLIENT"
    /\ w.self.client_sock = "open"
    /\ w.self.response_buffer = ErrorResponse(502)

\* C24: failed backend response gives 502: in READ_BACKEND, when the backend
\* closes its connection before the response head has been parsed, or sends
\* a head that does not parse, the context buffers a 502 and moves to
\* WRITE_CLIENT; it neither closes the client without a response nor stays
\* in READ_BACKEND.
BackendFailure502 ==
    \A c \in Contexts :
        (ctx[c].state = "READ_BACKEND" /\ ~ctx[c].response_header_parsed
            /\ ~HasDelimiter(ctx[c].response_buffer))
           => /\ Answered502(process_events(
                     World(c), now, "R", [NoInput EXCEPT !.outcome = "eof"]))
              /\ \A h \in {x \in ResponseHeads : ~x.ok} :
                    Answered502(process_events(
                        World(c), now, "R",
                        [NoInput EXCEPT !.outcome = "data", !.data = <<h>>]))

\* C25: client write failure: in WRITE_CLIENT, when send on the client
\* socket returns zero bytes while the response buffer is not empty, the
\* context goes directly to CLEANUP and is closed, and nothing further is
\* written.
ZeroSendCleansUp ==
    \A c \in Contexts :
        (ctx[c].state = "WRITE_CLIENT" /\ ctx[c].client_sock = "open"
            /\ ctx[c].response_buffer # <<>>)
           => LET w == process_events(
                           World(c), now, "W",
                           [NoInput EXCEPT !.outcome = "sent", !.n = 0])
              IN  /\ w.exc = ""
                  /\ w.self.client_sock = "closed"
                  /\ w.self.to_client = ctx[c].to_client

\* a context whose request head is parsed and whose buffer lacks the last
\* byte of the announced body
AwaitsLastBodyByte(self) ==
    /\ self.state = "READ_REQUEST"
    /\ self.client_sock = "open"
    /\ self.request_header_parsed
    /\ Len(self.request_buffer) + 1
          = self.request_head_raw_length + self.request_content_length

\* C26: body completion: once the buffer holds len(head) + 4 +
\* Content-Length bytes, also when the body arrives in a later read than the
\* head, the rewritten request with its complete body is handed to backend
\* initiation.
BodyCompletion ==
    \A c \in Contexts :
        AwaitsLastBodyByte(ctx[c])
           => LET w == process_events(
                           World(c), now, "R",
                           [NoInput EXCEPT !.outcome = "data",
                                           !.data = <<Body>>])
              IN  /\ w.exc = ""
                  /\ w.self.state \in {"CONNECT_BACKEND", "WRITE_BACKEND"}
                  /\ Len(w.self.request_buffer)
                        = Len(ctx[c].request_buffer) + 1
                  /\ w.self.request_buffer[1].fwd
                  /\ w.self.request_buffer[Len(w.self.request_buffer)] = Body

\* A keep-alive connection back in READ_REQUEST whose client is silent and
\* whose backend socket of the previous request is still registered for
\* reading.
SilentKeepAlive(self) ==
    /\ self.state = "READ_REQUEST"
    /\ self.client_sock = "open"
    /\ self.client_reg = "R"
    /\ self.backend_sock = "up"
    /\ self.backend_reg = "R"
    /\ self.request_buffer = <<>>

\* What the event loop makes of the read event a half-closed backend socket
\* keeps raising while the client sends nothing: recv on the client socket
\* has no data.
BackendEofEvent(c) ==
    process_events(World(c), now, "R",
                   [NoInput EXCEPT !.outcome = "BlockingIOError"])

\* C27: a connection whose client sends no further bytes is closed by the
\* sweep once its idle time exceeds the keep-alive timeout, in particular a
\* keep-alive connection in READ_REQUEST holding a half-closed backend
\* socket: the read events of that backend socket, in which the client
\* delivers nothing, do not take a context that has been idle for longer
\* than TIMEOUT out of the sweep that follows them in the same iteration.
IdleTimeout ==
    \A c \in Contexts :
        (/\ loop_exc = ""
         /\ SilentKeepAlive(ctx[c])
         /\ now - ctx[c].last_active > TIMEOUT)
        => LET w == BackendEofEvent(c)
           IN  /\ w.exc = ""
               /\ now - w.self.last_active > TIMEOUT

\* C28: the load balancer stays consistent between the discovery thread's
\* add_server and the data-plane's calls: every operation takes effect as a
\* whole (an address the discovery thread has added is in the registry),
\* a get_server on a non-empty registry returns an address of the
\* registry, and the address list equals the key set of the count map.
LoadBalancerConsistency ==
    /\ LOAD_BALANCER.servers_list = DictKeys(LOAD_BALANCER.servers_dict)
    /\ lb_ret.op = "get_server" /\ Len(LOAD_BALANCER.servers_list) > 0
          => /\ lb_ret.exc = ""
             /\ DictHas(LOAD_BALANCER.servers_dict, lb_ret.server)
    /\ lb_ret.op = "discover_servers"
          => /\ lb_ret.exc = ""
             /\ DictHas(LOAD_BALANCER.servers_dict, lb_ret.server)

PoolPositions ==
    {x \in (DOMAIN POOL) \X (1..MaxSocks) : x[2] <= Len(POOL[x[1]])}

BadRequestCloses ==
    [][\A c \in Contexts :
          (/\ ctx[c].state = "WRITE_CLIENT"
           /\ ctx[c].response_buffer = ErrorResponse(400))
          => ctx'[c].state # "READ_REQUEST"]_vars

\* buf from its position k + 1 on
DropFirst(buf, k) == SubSeq(buf, k + 1, Len(buf))

\* C32: write draining: every step of WRITE_BACKEND and of WRITE_CLIENT hands
\* the socket a prefix of the buffer, in order, and keeps exactly the rest,
\* so that what the socket accepted over the steps is a prefix of the buffer
\* the state was entered with; the state is left (to READ_BACKEND, or to
\* READ_REQUEST or CLEANUP) in the step that sends the last byte and in no
\* other, and a step that ends in an exception sends and drops nothing.
WriteDraining ==
    [][\A c \in Contexts :
          /\ (WriteRequest(c) /\ loop_exc' = "") =>
                LET buf == ctx[c].request_buffer
                IN  \E k \in 0..Len(buf) :
                       /\ ctx'[c].to_backend =
                              ctx[c].to_backend \o SubSeq(buf, 1, k)
                       /\ ctx'[c].request_buffer = DropFirst(buf, k)
                       /\ ctx'[c].state = IF k = Len(buf) THEN "READ_BACKEND"
                                          ELSE "WRITE_BACKEND"
          /\ (WriteClient(c) /\ loop_exc' = "") =>
                LET buf == ctx[c].response_buffer
                IN  \E k \in 0..Len(buf) :
                       IF k < Len(buf)
                       THEN /\ ctx'[c].state = "WRITE_CLIENT"
                            /\ ctx'[c].to_client =
                                   ctx[c].to_client \o SubSeq(buf, 1, k)
                            /\ ctx'[c].response_buffer = DropFirst(buf, k)
                       ELSE /\ ctx'[c].response_buffer = <<>>
                            /\ \/ ctx'[c].state = "READ_REQUEST"
                               \/ /\ ctx'[c].state = "CLEANUP"
                                  /\ ctx'[c].to_client =
                                         ctx[c].to_client \o buf
          /\ ((WriteRequest(c) \/ WriteClient(c)) /\ loop_exc' # "") =>
                /\ ctx'[c].state = ctx[c].state
                /\ ctx'[c].to_backend = ctx[c].to_backend
                /\ ctx'[c].to_client = ctx[c].to_client
                /\ ctx'[c].request_buffer = ctx[c].request_buffer
                /\ ctx'[c].response_buffer = ctx[c].response_buffer]_vars

\* a response of which the client has taken a part and not yet the rest,
\* to a request that went to the backend in more than one piece
WriteDrainingWitness ==
    \E c \in Contexts :
        /\ ctx[c].state = "WRITE_CLIENT"
        /\ ctx[c].to_client # <<>>
        /\ ctx[c].response_buffer # <<>>
        /\ Len(ctx[c].to_backend) >= 2
        /\ loop_exc = ""

BackendStates == {"CONNECT_BACKEND", "WRITE_BACKEND", "READ_BACKEND"}

\* C33: client suspension: while the event loop runs, an open context in
\* CONNECT_BACKEND, WRITE_BACKEND or READ_BACKEND (first attempt, retry or
\* reuse of the backend socket of an earlier request) has its client socket
\* unregistered and its backend socket registered, and an open context in
\* WRITE_CLIENT has its client socket registered for writing.
ClientSuspended ==
    \A c \in Contexts :
        (loop_exc = "" /\ ctx[c].client_sock = "open") =>
            /\ ctx[c].state \in BackendStates =>
                  /\ ctx[c].client_reg = ""
                  /\ ctx[c].backend_sock # None
                  /\ ctx[c].backend_reg # ""
            /\ ctx[c].state = "WRITE_CLIENT" => ctx[c].client_reg = "W"

\* the second request of a connection waits for its response, on a
\* connection that has seen a refused connect
ClientSuspendedWitness ==
    \E c \in Contexts :
        /\ loop_exc = ""
        /\ ctx[c].client_sock = "open"
        /\ ctx[c].state = "READ_BACKEND"
        /\ ctx[c].requests = 2
        /\ \E a \in AllAddrs : FAILED_SERVERS[a] > 0

\* the largest max-age the property looks for
MaxMaxAge == 60

\* the Cache-Control value of the head holds the token max-age=n or
\* max-age="n"
HasMaxAge(head, n) ==
    \E l \in HeadersNamed(head, "cache-control") :
        LET v == lower(ValueOf(LinesOf(head)[l]))
            bare == <<"max-age", "=">> \o str(n)
            quoted == <<"max-age", "=", "DQ">> \o str(n) \o <<"DQ">>
            Separated(i) == i = 1 \/ v[i - 1] \in {"SP", ","}
            Ends(j) == j = Len(v) \/ v[j + 1] \in {"SP", ","}
        IN  \E i \in 1..Len(v) : \E t \in {bare, quoted} :
               /\ i + Len(t) - 1 <= Len(v)
               /\ SubSeq(v, i, i + Len(t) - 1) = t
               /\ Separated(i)
               /\ Ends(i + Len(t) - 1)

\* the proxy compressed the body of the response
CompressionApplied ==
    /\ codec.accept # None
    /\ \E i \in 1..Len(codec.accept) : codec.accept[i] = "gzip"
    /\ HeadersNamed(codec.head, "content-encoding") = {}

\* C34: a backend response is cached exactly when its Cache-Control header
\* holds a max-age=N or max-age="N" token with N > 0; the entry lies under
\* the (method, path) of the request, expires N after the time of caching
\* and holds the bytes that go to the client, with the compressed body when
\* the proxy compressed it; no other entry is made
CachingDecision ==
    (codec.op = "cache_response" /\ codec.exc = "") =>
        LET k == <<codec.method, codec.path>>
            ages == {n \in 1..MaxMaxAge : HasMaxAge(codec.head, n)}
        IN  /\ CACHE[k] # <<>> <=> ages # {}
            /\ \A n \in ages : CACHE[k] = <<codec.out, now + n>>
            /\ \A j \in CacheKeys \ {k} : CACHE[j] = <<>>
            /\ partition(codec.out, HEADER_DELIMITER)[3] =
                  IF CompressionApplied THEN gzip_compress(codec.body)
                  ELSE codec.body

\* a compressed response was cached at time 1 for five seconds
CachingDecisionWitness ==
    /\ codec.op = "cache_response"
    /\ codec.exc = ""
    /\ CompressionApplied
    /\ codec.body # <<>>
    /\ now = 1
    /\ HasMaxAge(codec.head, 5)
    /\ CACHE[<<codec.method, codec.path>>] = <<codec.out, 6>>

\* the step of _write_client that ends a response to a request whose head
\* was parsed: the context leaves WRITE_CLIENT
ResponseWritten(c) ==
    /\ WriteClient(c)
    /\ loop_exc' = ""
    /\ ctx[c].state = "WRITE_CLIENT"
    /\ ctx[c].connection # "unparsed"
    /\ ctx'[c].state \in {"READ_REQUEST", "CLEANUP"}

\* C35: the keep-alive decision is per request: when a response has been
\* written in full the context goes back to READ_REQUEST exactly when the
\* Connection header of the request just served does not equal close, and
\* on to CLEANUP otherwise, whatever earlier requests on the connection
\* asked for
KeepAlivePerRequest ==
    [][\A c \in Contexts :
          ResponseWritten(c)
              => (ctx'[c].state = "READ_REQUEST"
                     <=> ctx[c].connection # "close")]_vars

\* a step of _write_client in which the client of c takes bytes that the
\* proxy gzip-encoded: the head with the Content-Encoding set by the proxy
\* or a piece of the stream
ReceivesGzip(c) ==
    /\ WriteClient(c)
    /\ loop_exc' = ""
    /\ ctx[c].state = "WRITE_CLIENT"
    /\ \E k \in 1..Len(ctx[c].response_buffer) :
          /\ ctx'[c].response_buffer = DropFirst(ctx[c].response_buffer, k)
          /\ \E i \in 1..k : ctx[c].response_buffer[i].gzip

\* C36: the encoding matches the requester: a client whose request did not
\* advertise gzip in Accept-Encoding receives no bytes that the proxy
\* gzip-encoded, also when the response comes from a cache entry stored
\* while answering a request that accepted gzip
EncodingMatchesRequester ==
    [][\A c \in Contexts : ReceivesGzip(c) => ctx[c].accept_gzip]_vars

===========================================================================
